---- MODULE Spec2Model ----
(***************************************************************************)
(* Shipping-cost resolution of the chatbot backend (src/src/services.py    *)
(* and its asynchronous fork src/src/services_async.py).                   *)
(*                                                                         *)
(* Representation.                                                         *)
(*  - A Python str is a sequence of one-character strings, so that         *)
(*    startswith, replace, strip, regular-expression search, float() and   *)
(*    the f-string formatting are computed character by character.         *)
(*  - A Python float is a fixed-point integer counting millionths          *)
(*    (1.00 is 1000000).  The arithmetic is exact for operands with at     *)
(*    most two decimals, which is what every enumerated input has.         *)
(*  - None is NoneNum / NoneStr (a record with some = FALSE).              *)
(*  - A call either returns or raises: Return(v) / Raise(e).               *)
(***************************************************************************)
EXTENDS Integers, Sequences, FiniteSets, TLC

VARIABLES
    db,     \* the relational store read by the request handlers
    op,     \* the operation that ran last
    args,   \* its arguments
    ret     \* its outcome: Return(value) or Raise(exception)

vars == <<db, op, args, ret>>

(***************************************************************************)
(* Python values                                                           *)
(***************************************************************************)
NoneNum == [some |-> FALSE, v |-> 0]
SomeNum(x) == [some |-> TRUE, v |-> x]
NoneStr == [some |-> FALSE, v |-> <<>>]
SomeStr(s) == [some |-> TRUE, v |-> s]

Return(v) == [kind |-> "return", value |-> v]
Raise(e) == [kind |-> "raise", exc |-> e]

Min2(a, b) == IF a <= b THEN a ELSE b
Max2(a, b) == IF a >= b THEN a ELSE b
SetMin(S) == CHOOSE x \in S : \A y \in S : x <= y

(***************************************************************************)
(* str methods                                                             *)
(***************************************************************************)
MatchAt(s, p, i) == i + Len(p) - 1 <= Len(s) /\ SubSeq(s, i, i + Len(p) - 1) = p
StartsWith(s, p) == MatchAt(s, p, 1)
EndsWith(s, p) == Len(p) <= Len(s) /\ MatchAt(s, p, Len(s) - Len(p) + 1)
\* p in s
Contains(s, p) == \E i \in 1..(Len(s) - Len(p) + 1) : MatchAt(s, p, i)
\* s.replace(c, "")
RemoveChar(s, c) == SelectSeq(s, LAMBDA x : x # c)

RECURSIVE LStrip(_)
LStrip(s) == IF s # <<>> /\ Head(s) = " " THEN LStrip(Tail(s)) ELSE s
RECURSIVE RStrip(_)
RStrip(s) == IF s # <<>> /\ s[Len(s)] = " " THEN RStrip(SubSeq(s, 1, Len(s) - 1)) ELSE s
Strip(s) == RStrip(LStrip(s))

DigitChars == <<"0", "1", "2", "3", "4", "5", "6", "7", "8", "9">>
IsDigitCh(c) == \E d \in 1..10 : DigitChars[d] = c
DigitVal(c) == (CHOOSE d \in 1..10 : DigitChars[d] = c) - 1

RECURSIVE DigitsToNat(_)
DigitsToNat(ds) ==
    IF ds = <<>> THEN 0
    ELSE 10 * DigitsToNat(SubSeq(ds, 1, Len(ds) - 1)) + DigitVal(ds[Len(ds)])

RECURSIVE NatToStr(_)
NatToStr(n) ==
    IF n < 10 THEN <<DigitChars[n + 1]>>
    ELSE NatToStr(n \div 10) \o <<DigitChars[(n % 10) + 1]>>

(***************************************************************************)
(* float(s): surrounding blanks are ignored, then an optional sign and a   *)
(* decimal literal with at least one digit and at most one point.          *)
(* Anything else is a ValueError (ok = FALSE).  Exponents, "inf", "nan"    *)
(* and digit-group underscores are outside the enumerated inputs.          *)
(***************************************************************************)
FracToMicros(fs) ==
    LET six == SubSeq(fs \o <<"0", "0", "0", "0", "0", "0">>, 1, 6)
    IN  DigitsToNat(six)

\* the literal without its sign
Unsigned(t) == IF t # <<>> /\ Head(t) \in {"+", "-"} THEN Tail(t) ELSE t
IsNegative(t) == t # <<>> /\ Head(t) = "-"
Points(body) == {i \in 1..Len(body) : body[i] = "."}
WellFormed(body) ==
    /\ \A i \in 1..Len(body) : IsDigitCh(body[i]) \/ body[i] = "."
    /\ Cardinality(Points(body)) <= 1
    /\ \E i \in 1..Len(body) : IsDigitCh(body[i])
\* the value of digits "." digits, the point at index dot
Magnitude(body, dot) ==
    DigitsToNat(SubSeq(body, 1, dot - 1)) * 1000000
        + FracToMicros(SubSeq(body, dot + 1, Len(body)))
PointIndex(body, points) == IF points = {} THEN Len(body) + 1 ELSE SetMin(points)
Signed(negative, mag) == IF negative THEN 0 - mag ELSE mag
FloatOfLiteral(body, negative) ==
    IF WellFormed(body)
    THEN [ok |-> TRUE, v |-> Signed(negative, Magnitude(body, PointIndex(body, Points(body))))]
    ELSE [ok |-> FALSE, v |-> 0]
FloatOfStripped(t) == FloatOfLiteral(Unsigned(t), IsNegative(t))

ParseFloat(s) == FloatOfStripped(Strip(s))

(***************************************************************************)
(* f"{x:.2f}": x rounded to cents, two decimals always printed.            *)
(***************************************************************************)
\* hundredths of a cent rounded to cents, ties to the even cent
RoundCents(c0, r) == IF r > 5000 \/ (r = 5000 /\ c0 % 2 = 1) THEN c0 + 1 ELSE c0
CentsOf(a) == RoundCents(a \div 10000, a % 10000)
FmtCents(negative, c) ==
    (IF negative THEN <<"-">> ELSE <<>>)
    \o NatToStr(c \div 100) \o <<".">>
    \o <<DigitChars[((c % 100) \div 10) + 1], DigitChars[(c % 10) + 1]>>
Fmt2(x) == FmtCents(x < 0, CentsOf(IF x < 0 THEN 0 - x ELSE x))

\* f"${x:.2f}"
Money(x) == <<"$">> \o Fmt2(x)

\* (cart_total * percentage) / 100
PercentOf(total, percentage) == (total \div 10000) * (percentage \div 10000)

(***************************************************************************)
(* re.search(key + '([^"]+)"', s) for key = 'percent="', 'min_fee="',       *)
(* 'max_fee="': the leftmost place where key is followed by one or more    *)
(* characters other than a double quote and then a double quote.           *)
(***************************************************************************)
RECURSIVE NonQuoteRun(_, _)
NonQuoteRun(s, i) ==
    IF i <= Len(s) /\ s[i] # "\"" THEN 1 + NonQuoteRun(s, i + 1) ELSE 0

\* at j: one or more characters other than a double quote, then a double quote
ClosedRunAt(s, j, n) == n >= 1 /\ j + n <= Len(s)
AttrMatchAt(s, key, i) ==
    /\ MatchAt(s, key, i)
    /\ ClosedRunAt(s, i + Len(key), NonQuoteRun(s, i + Len(key)))

GroupAt(s, j) == SubSeq(s, j, j + NonQuoteRun(s, j) - 1)
MatchOf(s, key, I) ==
    IF I = {} THEN [found |-> FALSE, group |-> <<>>]
    ELSE [found |-> TRUE, group |-> GroupAt(s, SetMin(I) + Len(key))]
ReSearchAttr(s, key) == MatchOf(s, key, {i \in 1..Len(s) : AttrMatchAt(s, key, i)})

PercentKey == <<"p","e","r","c","e","n","t","=","\"">>
MinFeeKey == <<"m","i","n","_","f","e","e","=","\"">>
MaxFeeKey == <<"m","a","x","_","f","e","e","=","\"">>
FeeOpen == <<"[","f","e","e"," ">>
AtCheckout == <<"C","a","l","c","u","l","a","t","e","d"," ","a","t"," ","c","h","e","c","k","o","u","t">>
FromPrefix == <<"F","r","o","m"," ">>
RangeSep == <<" ","-"," ">>

(***************************************************************************)
(* KnowledgeBaseService._calculate_shipping_cost(cost_str, cart_total)     *)
(***************************************************************************)
\* float(m.group(1)) if m else 0
FloatOfAttr(m) == IF m.found THEN ParseFloat(m.group) ELSE [ok |-> TRUE, v |-> 0]

\* the bracketed branch once its three attributes are read; capped says
\* whether the max_fee cap applies to a calculated fee
FeeOf(percentage, min_fee, max_fee, has_max, capped, cart_total) ==
    IF ~percentage.ok \/ ~min_fee.ok \/ ~max_fee.ok THEN Raise("ValueError")
    ELSE IF ~cart_total.some
    THEN IF has_max
         THEN Return(Money(min_fee.v) \o RangeSep \o Money(max_fee.v))
         ELSE Return(FromPrefix \o Money(min_fee.v))
    ELSE IF capped
    THEN Return(Money(Min2(Max2(PercentOf(cart_total.v, percentage.v), min_fee.v), max_fee.v)))
    ELSE Return(Money(Max2(PercentOf(cart_total.v, percentage.v), min_fee.v)))

\* a bracketed fee that forgets the max_fee cap
BracketedFee_NoMaxCap(cost_str, cart_total) ==
    FeeOf(ParseFloat(ReSearchAttr(cost_str, PercentKey).group),
          FloatOfAttr(ReSearchAttr(cost_str, MinFeeKey)),
          FloatOfAttr(ReSearchAttr(cost_str, MaxFeeKey)),
          ReSearchAttr(cost_str, MaxFeeKey).found, FALSE, cart_total)

BracketedFee(cost_str, cart_total) ==
    FeeOf(ParseFloat(ReSearchAttr(cost_str, PercentKey).group),
          FloatOfAttr(ReSearchAttr(cost_str, MinFeeKey)),
          FloatOfAttr(ReSearchAttr(cost_str, MaxFeeKey)),
          ReSearchAttr(cost_str, MaxFeeKey).found,
          ReSearchAttr(cost_str, MaxFeeKey).found, cart_total)

\* the percentage branch once the text before "%" is parsed
PercentageOf(percentage, cart_total) ==
    IF ~cart_total.some THEN Return(AtCheckout)
    ELSE IF ~percentage.ok THEN Raise("ValueError")
    ELSE Return(Money(PercentOf(cart_total.v, percentage.v)))

\* a percentage that is computed without looking whether a cart total was given
SimplePercentage_NoNoneCheck(cost_str, cart_total) ==
    PercentageOf(ParseFloat(Strip(RemoveChar(cost_str, "%"))),
                 IF cart_total.some THEN cart_total ELSE SomeNum(0))

SimplePercentage(cost_str, cart_total) ==
    PercentageOf(ParseFloat(Strip(RemoveChar(cost_str, "%"))), cart_total)

\* a fixed cost echoed without the dollar formatting
FixedCost_Echo(cost_str) == Return(cost_str)

\* the formatted value, or the string as it came when float() fails
FormattedOr(cost_value, cost_str) ==
    IF cost_value.ok THEN Return(Money(cost_value.v)) ELSE Return(cost_str)
FixedCost(cost_str) ==
    FormattedOr(ParseFloat(Strip(RemoveChar(RemoveChar(cost_str, "$"), ","))), cost_str)

CalculateShippingCost(cost_str, cart_total) ==
    IF cost_str = <<>> \/ cost_str = <<"0">> THEN Return(Money(0))
    ELSE IF /\ StartsWith(cost_str, FeeOpen)
            /\ EndsWith(cost_str, <<"]">>)
            /\ ReSearchAttr(cost_str, PercentKey).found
    THEN BracketedFee(cost_str, cart_total)
    ELSE IF Contains(cost_str, <<"%">>)
    THEN SimplePercentage(cost_str, cart_total)
    ELSE FixedCost(cost_str)

(***************************************************************************)
(* KnowledgeBaseService._extract_numeric_cost(cost_str)                    *)
(***************************************************************************)
IsNumCh(c) == IsDigitCh(c) \/ c = "."

RECURSIVE NumRun(_, _)
NumRun(s, i) == IF i <= Len(s) /\ IsNumCh(s[i]) THEN 1 + NumRun(s, i + 1) ELSE 0

\* re.findall(r'[\d.]+', s)[0], when there is one
FirstRun(s, I) ==
    IF I = {} THEN NoneStr
    ELSE SomeStr(SubSeq(s, SetMin(I), SetMin(I) + NumRun(s, SetMin(I)) - 1))
FirstNumber(s) == FirstRun(s, {i \in 1..Len(s) : IsNumCh(s[i])})

\* s.isdigit()
IsDigitStr(s) == s # <<>> /\ \A i \in 1..Len(s) : IsDigitCh(s[i])

\* float(x) inside the try: a ValueError gives 0.0
FloatOrZero(f) == IF f.ok THEN f.v ELSE 0
NumericOfFirst(first) == IF first.some THEN FloatOrZero(ParseFloat(first.v)) ELSE 0
NumericOfCleaned(cleaned) ==
    IF IsDigitStr(RemoveChar(cleaned, "."))
    THEN FloatOrZero(ParseFloat(cleaned))
    ELSE NumericOfFirst(FirstNumber(cleaned))
ExtractNumericCost(cost_str) ==
    IF cost_str = <<>> \/ cost_str = <<"0">> THEN 0
    ELSE NumericOfCleaned(Strip(RemoveChar(RemoveChar(cost_str, "$"), ",")))

(***************************************************************************)
(* Geo matching: KnowledgeBaseService._postcode_matches_zone and helpers   *)
(***************************************************************************)
LowerChars == <<"a","b","c","d","e","f","g","h","i","j","k","l","m",
                "n","o","p","q","r","s","t","u","v","w","x","y","z">>
UpperChars == <<"A","B","C","D","E","F","G","H","I","J","K","L","M",
                "N","O","P","Q","R","S","T","U","V","W","X","Y","Z">>
UpperCh(c) ==
    IF \E k \in 1..26 : LowerChars[k] = c
    THEN UpperChars[CHOOSE k \in 1..26 : LowerChars[k] = c]
    ELSE c
\* an upper() that leaves the string as it is
Upper_AsIs(s) == s
\* s.upper()
Upper(s) == [k \in 1..Len(s) |-> UpperCh(s[k])]

\* int(s): blanks around an optional sign and decimal digits, else ValueError
IntOfLiteral(body, negative) ==
    IF IsDigitStr(body)
    THEN [ok |-> TRUE, v |-> Signed(negative, DigitsToNat(body))]
    ELSE [ok |-> FALSE, v |-> 0]
IntOfStripped(t) == IntOfLiteral(Unsigned(t), IsNegative(t))
ParseInt(s) == IntOfStripped(Strip(s))

\* a table entry: the key and the half-open integer ranges it covers
Entry(code, ranges) == [code |-> code, ranges |-> ranges]
InRanges(n, ranges) == \E r \in ranges : r[1] <= n /\ n < r[2]
HasKey(table, code) == \E e \in table : e.code = code
Lookup(table, code) == (CHOOSE e \in table : e.code = code).ranges

\* postcode_ranges
PostcodeRanges ==
    { Entry(<<"A","U",":","V","I","C">>, {<<3000, 4000>>}), Entry(<<"V","I","C">>, {<<3000, 4000>>}),
      Entry(<<"V","I","C","T","O","R","I","A">>, {<<3000, 4000>>}),
      Entry(<<"A","U",":","N","S","W">>, {<<1000, 3000>>, <<2000, 3000>>}),
      Entry(<<"N","S","W">>, {<<1000, 3000>>, <<2000, 3000>>}),
      Entry(<<"N","E","W"," ","S","O","U","T","H"," ","W","A","L","E","S">>, {<<1000, 3000>>, <<2000, 3000>>}),
      Entry(<<"A","U",":","Q","L","D">>, {<<4000, 5000>>}), Entry(<<"Q","L","D">>, {<<4000, 5000>>}),
      Entry(<<"Q","U","E","E","N","S","L","A","N","D">>, {<<4000, 5000>>}),
      Entry(<<"A","U",":","S","A">>, {<<5000, 6000>>}), Entry(<<"S","A">>, {<<5000, 6000>>}),
      Entry(<<"S","O","U","T","H"," ","A","U","S","T","R","A","L","I","A">>, {<<5000, 6000>>}),
      Entry(<<"A","U",":","W","A">>, {<<6000, 7000>>}), Entry(<<"W","A">>, {<<6000, 7000>>}),
      Entry(<<"W","E","S","T","E","R","N"," ","A","U","S","T","R","A","L","I","A">>, {<<6000, 7000>>}),
      Entry(<<"A","U",":","T","A","S">>, {<<7000, 8000>>}), Entry(<<"T","A","S">>, {<<7000, 8000>>}),
      Entry(<<"T","A","S","M","A","N","I","A">>, {<<7000, 8000>>}),
      Entry(<<"A","U",":","N","T">>, {<<800, 900>>, <<900, 1000>>}),
      Entry(<<"N","T">>, {<<800, 900>>, <<900, 1000>>}),
      Entry(<<"N","O","R","T","H","E","R","N"," ","T","E","R","R","I","T","O","R","Y">>, {<<800, 900>>, <<900, 1000>>}),
      Entry(<<"A","U",":","A","C","T">>, {<<200, 300>>, <<2600, 2700>>}),
      Entry(<<"A","C","T">>, {<<200, 300>>, <<2600, 2700>>}),
      Entry(<<"A","U","S","T","R","A","L","I","A","N"," ","C","A","P","I","T","A","L"," ","T","E","R","R","I","T","O","R","Y">>, {<<200, 300>>, <<2600, 2700>>}) }

\* city_ranges
CityRanges ==
    { Entry(<<"M","E","L","B","O","U","R","N","E">>, {<<3000, 3200>>}), Entry(<<"M","E","L","B","O","U","R","N","E"," ","M","E","T","R","O">>, {<<3000, 3200>>}),
      Entry(<<"M","E","L","B","O","U","R","N","E"," ","C","B","D">>, {<<3000, 3007>>}),
      Entry(<<"F","O","O","T","S","C","R","A","Y">>, {<<3011, 3012>>, <<3012, 3013>>}),
      Entry(<<"V","I","R","G","I","N","I","A">>, {<<4014, 4015>>}),
      Entry(<<"S","Y","D","N","E","Y">>, {<<1000, 1400>>, <<2000, 2300>>}),
      Entry(<<"S","Y","D","N","E","Y"," ","M","E","T","R","O">>, {<<1000, 1400>>, <<2000, 2300>>}),
      Entry(<<"S","Y","D","N","E","Y"," ","C","B","D">>, {<<2000, 2010>>}),
      Entry(<<"B","R","I","S","B","A","N","E">>, {<<4000, 4200>>}), Entry(<<"B","R","I","S","B","A","N","E"," ","M","E","T","R","O">>, {<<4000, 4200>>}),
      Entry(<<"B","R","I","S","B","A","N","E"," ","C","B","D">>, {<<4000, 4010>>}), Entry(<<"B","E","E","N","L","E","I","G","H">>, {<<4207, 4210>>}),
      Entry(<<"G","O","L","D"," ","C","O","A","S","T">>, {<<4200, 4230>>}), Entry(<<"S","U","N","S","H","I","N","E"," ","C","O","A","S","T">>, {<<4550, 4580>>}),
      Entry(<<"A","D","E","L","A","I","D","E">>, {<<5000, 5200>>}), Entry(<<"A","D","E","L","A","I","D","E"," ","M","E","T","R","O">>, {<<5000, 5200>>}),
      Entry(<<"P","E","R","T","H">>, {<<6000, 6200>>}), Entry(<<"P","E","R","T","H"," ","M","E","T","R","O">>, {<<6000, 6200>>}),
      Entry(<<"H","O","B","A","R","T">>, {<<7000, 7100>>}), Entry(<<"H","O","B","A","R","T"," ","M","E","T","R","O">>, {<<7000, 7100>>}),
      Entry(<<"W","O","L","L","O","N","G","O","N","G">>, {<<2500, 2530>>}), Entry(<<"W","O","O","L","L","O","O","N","G","O","N","G">>, {<<2500, 2530>>}) }

\* metro_zones
MetroZones ==
    { Entry(<<"M","E","L","B","O","U","R","N","E">>, {<<3000, 3200>>}), Entry(<<"S","Y","D","N","E","Y">>, {<<2000, 2300>>}),
      Entry(<<"B","R","I","S","B","A","N","E">>, {<<4000, 4200>>}), Entry(<<"A","D","E","L","A","I","D","E">>, {<<5000, 5200>>}),
      Entry(<<"P","E","R","T","H">>, {<<6000, 6200>>}), Entry(<<"H","O","B","A","R","T">>, {<<7000, 7100>>}) }

\* KnowledgeBaseService._is_in_metro_radius(postcode, zone_name)
IsInMetroRadius(postcode, zone_name) ==
    \E e \in MetroZones : Contains(zone_name, e.code) /\ InRanges(postcode, e.ranges)

\* location.get("code", "")
CodeOf(location) == IF location.code.some THEN location.code.v ELSE <<>>

(***************************************************************************)
(* KnowledgeBaseService._is_postcode_in_location(postcode, location).      *)
(* Past the two tables the method reads the name `zone`, which is neither  *)
(* a parameter nor a local nor a module global: that read is a NameError,  *)
(* so the radius heuristic behind it is never reached from here.           *)
(***************************************************************************)
\* a lookup that goes to the tables, and past them, before it looks whether
\* the postcode was an integer
InTables_IntLast(postcode_int, code) ==
    IF HasKey(PostcodeRanges, code)
    THEN Return(postcode_int.ok /\ InRanges(postcode_int.v, Lookup(PostcodeRanges, code)))
    ELSE IF HasKey(CityRanges, code)
    THEN Return(postcode_int.ok /\ InRanges(postcode_int.v, Lookup(CityRanges, code)))
    ELSE Raise("NameError")
InTables(postcode_int, code) ==
    IF ~postcode_int.ok THEN Return(FALSE)
    ELSE IF HasKey(PostcodeRanges, code)
    THEN Return(InRanges(postcode_int.v, Lookup(PostcodeRanges, code)))
    ELSE IF HasKey(CityRanges, code)
    THEN Return(InRanges(postcode_int.v, Lookup(CityRanges, code)))
    ELSE Raise("NameError")
IsPostcodeInLocation(postcode, location) ==
    InTables(ParseInt(postcode), Upper(CodeOf(location)))

\* zone.locations: NULL, blank text, text that is not JSON, or a JSON list
NullLocations == [kind |-> "null", items |-> <<>>]
BlankLocations == [kind |-> "blank", items |-> <<>>]
InvalidLocations == [kind |-> "invalid", items |-> <<>>]
LocationList(items) == [kind |-> "list", items |-> items]
Location(type, code) == [type |-> type, code |-> code]

\* the for loop over json.loads(zone.locations), from entry i on; inside is
\* the outcome of _is_postcode_in_location for entry i
RECURSIVE MatchLocations(_, _, _)
RECURSIVE MatchLocation(_, _, _, _)
MatchLocation(customer_postcode, locations, i, inside) ==
    IF locations[i].type = "postcode" /\ locations[i].code = SomeStr(customer_postcode)
    THEN Return(TRUE)
    ELSE IF locations[i].type \in {"state", "city", "region"}
    THEN IF inside.kind = "raise" THEN inside
         ELSE IF inside.value THEN Return(TRUE)
         ELSE MatchLocations(customer_postcode, locations, i + 1)
    ELSE MatchLocations(customer_postcode, locations, i + 1)
MatchLocations(customer_postcode, locations, i) ==
    IF i > Len(locations) THEN Return(FALSE)
    ELSE MatchLocation(customer_postcode, locations, i,
                       IsPostcodeInLocation(customer_postcode, locations[i]))

\* KnowledgeBaseService._postcode_matches_zone(customer_postcode, zone)
PostcodeMatchesZone(customer_postcode, zone) ==
    IF zone.locations.kind \in {"null", "blank"} THEN Return(FALSE)
    ELSE IF zone.locations.kind = "invalid" THEN Return(FALSE)
    ELSE MatchLocations(customer_postcode, zone.locations.items, 1)

\* services_async KnowledgeBaseService._postcode_matches_zone(postcode, zone):
\* every branch returns True
AsyncPostcodeMatchesZone(postcode, zone) ==
    IF zone.locations.kind = "null" THEN TRUE
    ELSE IF zone.locations.kind = "invalid" THEN TRUE
    ELSE TRUE

(***************************************************************************)
(* The store (src/src/db_models.py).  A table is the sequence of its rows  *)
(* in primary-key order; a query without ORDER BY returns rows in that     *)
(* order and .first() takes the first of them.                             *)
(*   sites    [id, name]                                                   *)
(*   zones    [id, site_id, name, locations]                               *)
(*   methods  [id, zone_id, method_id, title, enabled, settings]           *)
(*   rates    [method_id, shipping_class_id, cost]                         *)
(*   classes  [id, site_id, slug]                                          *)
(*   products [site_id, woo_id, shipping_class]                            *)
(***************************************************************************)
\* values decoded from JSON or read from a column
PyNone == [t |-> "none", s |-> <<>>, n |-> 0]
PyStr(s) == [t |-> "str", s |-> s, n |-> 0]
PyNum(n) == [t |-> "num", s |-> <<>>, n |-> n]

\* ShippingMethod.settings: NULL, text that is not JSON, or a JSON object whose
\* "cost" is absent, a bare value, or an object holding "value"
NullSettings == [kind |-> "null", form |-> "absent", val |-> PyNone]
InvalidSettings == [kind |-> "invalid", form |-> "absent", val |-> PyNone]
NoCost == [kind |-> "object", form |-> "absent", val |-> PyNone]
BareCost(val) == [kind |-> "object", form |-> "bare", val |-> val]
NestedCost(val) == [kind |-> "object", form |-> "nested", val |-> val]

\* session.query(Site).filter_by(name=site_name).first()
SitesNamed(d, site_name) == SelectSeq(d.sites, LAMBDA s : s.name = site_name)
\* session.query(ShippingZone).filter_by(site_id=site.id).all()
ZonesOfSite(d, site_id) == SelectSeq(d.zones, LAMBDA z : z.site_id = site_id)
\* a query that forgets the enabled filter
EnabledMethodsOfZone_All(d, zone_id) == SelectSeq(d.methods, LAMBDA m : m.zone_id = zone_id)
\* session.query(ShippingMethod).filter_by(zone_id=zone.id, enabled=True).all()
EnabledMethodsOfZone(d, zone_id) ==
    SelectSeq(d.methods, LAMBDA m : m.zone_id = zone_id /\ m.enabled)
\* session.query(ShippingClassRate).filter_by(method_id=method.id, shipping_class_id=None)
NoClassRates(d, method_pk) ==
    SelectSeq(d.rates, LAMBDA r : r.method_id = method_pk /\ ~r.shipping_class_id.some)

\* "0", settings["cost"].get("value", "0") or str(settings["cost"])
CostValueOfSettings(settings) ==
    IF settings.kind = "null" \/ settings.form = "absent" THEN PyStr(<<"0">>)
    ELSE IF settings.form = "nested"
    THEN (IF settings.val.t = "none" THEN PyStr(<<"0">>) ELSE settings.val)
    ELSE IF settings.val.t = "num" THEN PyStr(NatToStr(settings.val.n))
    ELSE settings.val

\* the cost of the no-class rate row when it has one, else the settings cost
RateOrSettings(no_class_rate, settings) ==
    IF no_class_rate # <<>> /\ no_class_rate[1].cost.some /\ no_class_rate[1].cost.v # <<>>
    THEN PyStr(no_class_rate[1].cost.v)
    ELSE CostValueOfSettings(settings)

\* a resolver that prefers the settings cost to the no-class rate row
RawCostOfMethod_SettingsFirst(d, method) ==
    IF method.settings.form # "absent" THEN CostValueOfSettings(method.settings)
    ELSE RateOrSettings(NoClassRates(d, method.id), method.settings)

\* the cost_value of a method: its no-class rate when that row has a cost,
\* else the cost of its settings
RawCostOfMethod(d, method) == RateOrSettings(NoClassRates(d, method.id), method.settings)

\* a tag that does not look at the cost expression
CostTypeOf_Percentage(cost_value) == "percentage"

\* "percentage" if ("%" in cost_value or "percent" in cost_value) else "fixed"
CostTypeOf(cost_value) ==
    IF Contains(cost_value, <<"%">>) \/ Contains(cost_value, <<"p","e","r","c","e","n","t">>)
    THEN "percentage" ELSE "fixed"

\* One round of the method loop of get_shipping_options: the option appended for
\* the method, or the exception that leaves the loop.  A cost_value that is not
\* a str fails in _calculate_shipping_cost (startswith) or, when it is 0, in
\* the "%" test.  origin is the row the option was built from; the program's
\* dict has no such key, it is kept to state where a quote came from.
OptionWithCost(method, cost_value, calculated_cost) ==
    IF calculated_cost.kind = "raise" THEN calculated_cost
    ELSE Return([method_id |-> method.method_id,
                 title |-> method.title,
                 cost |-> calculated_cost.value,
                 cost_type |-> CostTypeOf(cost_value.s),
                 raw_cost |-> cost_value.s,
                 description |-> method.title,
                 origin |-> method.id])
OptionForCostValue(method, cost_value, cart_total) ==
    IF method.settings.kind = "invalid" THEN Raise("JSONDecodeError")
    ELSE IF cost_value.t = "num"
    THEN (IF cost_value.n = 0 THEN Raise("TypeError") ELSE Raise("AttributeError"))
    ELSE OptionWithCost(method, cost_value, CalculateShippingCost(cost_value.s, cart_total))
OptionOfMethod(d, method, cart_total) ==
    OptionForCostValue(method, RawCostOfMethod(d, method), cart_total)

\* the method loop from method i on, options holding what was appended so
\* far; o is the outcome of the round for method i
RECURSIVE OptionsOfMethods(_, _, _, _, _)
RECURSIVE AppendOption(_, _, _, _, _, _)
\* a loop that leaves the options that cost nothing out
AppendOption_NoFree(d, methods, i, cart_total, options, o) ==
    IF o.kind = "raise" THEN o
    ELSE IF o.value.cost = <<"$","0",".","0","0">>
    THEN OptionsOfMethods(d, methods, i + 1, cart_total, options)
    ELSE OptionsOfMethods(d, methods, i + 1, cart_total, Append(options, o.value))
AppendOption(d, methods, i, cart_total, options, o) ==
    IF o.kind = "raise" THEN o
    ELSE OptionsOfMethods(d, methods, i + 1, cart_total, Append(options, o.value))
OptionsOfMethods(d, methods, i, cart_total, options) ==
    IF i > Len(methods) THEN Return(options)
    ELSE AppendOption(d, methods, i, cart_total, options,
                      OptionOfMethod(d, methods[i], cart_total))

\* the enabled methods of the zones, zone by zone
RECURSIVE MethodsOfZones(_, _, _)
MethodsOfZones(d, zones, i) ==
    IF i > Len(zones) THEN <<>>
    ELSE EnabledMethodsOfZone(d, zones[i].id) \o MethodsOfZones(d, zones, i + 1)

\* if customer_postcode: a None or empty postcode does not filter
Truthy(s) == s.some /\ s.v # <<>>

\* the outcomes of _postcode_matches_zone over the zones, in zone order
ZoneMatches(zones, customer_postcode) ==
    [i \in 1..Len(zones) |-> PostcodeMatchesZone(customer_postcode, zones[i])]

\* matching_zones
MatchingZones(zones, customer_postcode) ==
    SelectSeq(zones, LAMBDA z : PostcodeMatchesZone(customer_postcode, z).value)
\* if not matching_zones: matching_zones = zones
ZonesOrAll(zones, matching_zones) ==
    IF matching_zones = <<>> THEN Return(zones) ELSE Return(matching_zones)
Raises(outcomes) == \E i \in 1..Len(outcomes) : outcomes[i].kind = "raise"

\* a filter without the fallback to all zones
FilterZones_NoFallback(zones, customer_postcode) ==
    IF Raises(ZoneMatches(zones, customer_postcode)) THEN Raise("NameError")
    ELSE Return(MatchingZones(zones, customer_postcode))

\* the postcode filter of get_shipping_options: the matching zones, all zones
\* when none matches, or the exception of the matcher
FilterZones(zones, customer_postcode) ==
    IF Raises(ZoneMatches(zones, customer_postcode)) THEN Raise("NameError")
    ELSE ZonesOrAll(zones, MatchingZones(zones, customer_postcode))

\* the zone and method loops over the zones kept
QuoteZones(d, zones, cart_total) ==
    IF zones.kind = "raise" THEN zones
    ELSE OptionsOfMethods(d, MethodsOfZones(d, zones.value, 1), 1, cart_total, <<>>)
ZonesForPostcode(zones, customer_postcode) ==
    IF Truthy(customer_postcode)
    THEN FilterZones(zones, customer_postcode.v)
    ELSE Return(zones)
\* a lookup that goes on to read site.id when no site was found
QuoteSite_NoSiteGuard(d, site, cart_total, customer_postcode) ==
    IF site = <<>> THEN Raise("AttributeError")
    ELSE QuoteZones(d, ZonesForPostcode(ZonesOfSite(d, site[1].id), customer_postcode),
                    cart_total)
QuoteSite(d, site, cart_total, customer_postcode) ==
    IF site = <<>> THEN Return(<<>>)
    ELSE QuoteZones(d, ZonesForPostcode(ZonesOfSite(d, site[1].id), customer_postcode),
                    cart_total)

\* KnowledgeBaseService.get_shipping_options(site_name, session, cart_total, customer_postcode)
GetShippingOptions(d, site_name, cart_total, customer_postcode) ==
    QuoteSite(d, SitesNamed(d, site_name), cart_total, customer_postcode)

(***************************************************************************)
(* KnowledgeBaseService.get_shipping_options_for_products (synchronous)    *)
(***************************************************************************)
\* session.query(Product).filter_by(site_id=site.id, woo_id=product_id)
ProductsFound(d, site_id, woo_id) ==
    SelectSeq(d.products, LAMBDA x : x.site_id = site_id /\ x.woo_id = woo_id)
\* session.query(ShippingClass).filter_by(site_id=site.id, slug=product.shipping_class)
ClassesFound(d, site_id, slug) ==
    SelectSeq(d.classes, LAMBDA c : c.site_id = site_id /\ c.slug = slug)

\* shipping_class_ids: the ids of the classes the cart's products resolve to
ShippingClassIds(d, site_id, products) ==
    { ClassesFound(d, site_id, ProductsFound(d, site_id, products[k])[1].shipping_class.v)[1].id :
        k \in { j \in 1..Len(products) :
                  /\ products[j] # 0
                  /\ ProductsFound(d, site_id, products[j]) # <<>>
                  /\ Truthy(ProductsFound(d, site_id, products[j])[1].shipping_class)
                  /\ ClassesFound(d, site_id,
                         ProductsFound(d, site_id, products[j])[1].shipping_class.v) # <<>> } }

\* session.query(ShippingMethod).filter_by(method_id=..., title=...)
MethodsLike(d, option) ==
    SelectSeq(d.methods, LAMBDA m : m.method_id = option.method_id /\ m.title = option.title)

\* the rates of a method for the classes of the cart
ClassRates(d, method_pk, shipping_class_ids) ==
    SelectSeq(d.rates, LAMBDA r :
        /\ r.method_id = method_pk
        /\ r.shipping_class_id.some
        /\ r.shipping_class_id.v \in shipping_class_ids)

\* the loop over class_rates from rate i on: the highest numeric cost seen,
\* or the exception of _calculate_shipping_cost; cost is the outcome of
\* _calculate_shipping_cost for rate i
RECURSIVE MaxClassCost(_, _, _, _)
RECURSIVE MaxWithCost(_, _, _, _, _)
MaxWithCost(class_rates, i, cart_total, max_cost, cost) ==
    IF cost.kind = "raise" THEN cost
    ELSE MaxClassCost(class_rates, i + 1, cart_total,
                      Max2(max_cost, ExtractNumericCost(cost.value)))
MaxClassCost(class_rates, i, cart_total, max_cost) ==
    IF i > Len(class_rates) THEN Return(max_cost)
    ELSE IF ~Truthy(class_rates[i].cost)
    THEN MaxClassCost(class_rates, i + 1, cart_total, max_cost)
    ELSE MaxWithCost(class_rates, i, cart_total, max_cost,
                     CalculateShippingCost(class_rates[i].cost.v, cart_total))

\* if max_cost > 0: the option takes the class-based cost
ApplyMaxCost(option, max_cost) ==
    IF max_cost.kind = "raise" THEN max_cost
    ELSE IF max_cost.value > 0
    THEN Return([option EXCEPT !.cost = Money(max_cost.value), !.cost_type = "class_based"])
    ELSE Return(option)
OverrideWithRates(option, class_rates, cart_total) ==
    IF class_rates = <<>> THEN Return(option)
    ELSE ApplyMaxCost(option, MaxClassCost(class_rates, 1, cart_total, 0))
OverrideForMethod(d, option, method, shipping_class_ids, cart_total) ==
    IF method = <<>> \/ shipping_class_ids = {} THEN Return(option)
    ELSE OverrideWithRates(option, ClassRates(d, method[1].id, shipping_class_ids), cart_total)

\* One round of the option loop: the option as it is left by the round
OverrideOption(d, option, shipping_class_ids, cart_total) ==
    OverrideForMethod(d, option, MethodsLike(d, option), shipping_class_ids, cart_total)

\* the option loop from option i on; o is the outcome of the round for option i
RECURSIVE OverrideOptions(_, _, _, _, _)
RECURSIVE ReplaceOption(_, _, _, _, _, _)
ReplaceOption(d, options, i, shipping_class_ids, cart_total, o) ==
    IF o.kind = "raise" THEN o
    ELSE OverrideOptions(d, [options EXCEPT ![i] = o.value], i + 1,
                         shipping_class_ids, cart_total)
OverrideOptions(d, options, i, shipping_class_ids, cart_total) ==
    IF i > Len(options) THEN Return(options)
    ELSE ReplaceOption(d, options, i, shipping_class_ids, cart_total,
                       OverrideOption(d, options[i], shipping_class_ids, cart_total))

OverrideQuoted(d, site, products, cart_total, shipping_options) ==
    IF shipping_options.kind = "raise" THEN shipping_options
    ELSE IF products = <<>> \/ site = <<>> THEN shipping_options
    ELSE OverrideOptions(d, shipping_options.value, 1,
                         ShippingClassIds(d, site[1].id, products), cart_total)
GetShippingOptionsForProducts(d, site_name, products, cart_total, customer_postcode) ==
    OverrideQuoted(d, SitesNamed(d, site_name), products, cart_total,
                   GetShippingOptions(d, site_name, cart_total, customer_postcode))

(***************************************************************************)
(* services_async KnowledgeBaseService.get_shipping_options_for_products   *)
(***************************************************************************)
\* float(settings.get("cost", 0)) inside the try of _calculate_method_cost:
\* None stands for the exception the try swallows
FloatOrNone(f) == IF f.ok THEN SomeNum(f.v) ELSE NoneNum
AsyncBaseCost(settings) ==
    IF settings.kind = "invalid" THEN NoneNum
    ELSE IF settings.kind = "null" \/ settings.form = "absent" THEN SomeNum(0)
    ELSE IF settings.form = "nested" THEN NoneNum
    ELSE IF settings.val.t = "num" THEN SomeNum(settings.val.n * 1000000)
    ELSE FloatOrNone(ParseFloat(settings.val.s))

\* shipping_classes
ClassesOfProducts(products) ==
    { products[k].shipping_class.v :
        k \in { j \in 1..Len(products) : Truthy(products[j].shipping_class) } }
CostForClasses(base_cost, shipping_classes) ==
    IF ~base_cost.some THEN NoneNum
    ELSE IF shipping_classes # {} THEN NoneNum
    ELSE base_cost

\* _calculate_method_cost(session, method, products).  With a product that has
\* a shipping class the rate query names ShippingClassRate.shipping_method_id,
\* an attribute the mapped class does not have: AttributeError, swallowed.
AsyncMethodCost(method, products) ==
    CostForClasses(AsyncBaseCost(method.settings), ClassesOfProducts(products))

\* a settings column that were a dict without the key
MethodSettingsGet_Dict(method, key) == Return(NoneStr)

\* method.settings.get(key): settings is a Text column, a str or None, and
\* neither has a get
MethodSettingsGet(method, key) == Raise("AttributeError")

\* select(Product).where(site_id == site.id, woo_id.in_(product_ids))
ProductsIn(d, site_id, product_ids) ==
    SelectSeq(d.products, LAMBDA x :
        x.site_id = site_id /\ \E k \in 1..Len(product_ids) : product_ids[k] = x.woo_id)

\* zone.methods
MethodsOfZone(d, zone_id) == SelectSeq(d.methods, LAMBDA m : m.zone_id = zone_id)

\* the zones that pass "if postcode and not _postcode_matches_zone: continue"
AsyncZones(zones, postcode) ==
    SelectSeq(zones, LAMBDA z : ~Truthy(postcode) \/ AsyncPostcodeMatchesZone(postcode.v, z))

RECURSIVE AsyncMethodsOfZones(_, _, _)
AsyncMethodsOfZones(d, zones, i) ==
    IF i > Len(zones) THEN <<>>
    ELSE MethodsOfZone(d, zones[i].id) \o AsyncMethodsOfZones(d, zones, i + 1)

\* the method loop from method i on; cost and description are what the round
\* for method i computes
RECURSIVE AsyncOptions(_, _, _, _)
RECURSIVE AsyncAppend(_, _, _, _, _, _)
AsyncAppend(methods, i, products, shipping_options, cost, description) ==
    IF ~cost.some THEN AsyncOptions(methods, i + 1, products, shipping_options)
    ELSE IF description.kind = "raise" THEN description
    ELSE AsyncOptions(methods, i + 1, products,
             Append(shipping_options,
                    [method_id |-> <<methods[i].zone_id, methods[i].id>>,
                     method_title |-> methods[i].method_title,
                     cost |-> cost.v,
                     description |-> description.value,
                     origin |-> methods[i].id]))
AsyncOptions(methods, i, products, shipping_options) ==
    IF i > Len(methods) THEN Return(shipping_options)
    ELSE AsyncAppend(methods, i, products, shipping_options,
                     AsyncMethodCost(methods[i], products),
                     MethodSettingsGet(methods[i], "description"))

AsyncQuoteSite(d, site, product_ids, postcode) ==
    IF site = <<>> THEN Return(<<>>)
    ELSE AsyncOptions(
             AsyncMethodsOfZones(d, AsyncZones(ZonesOfSite(d, site[1].id), postcode), 1),
             1, ProductsIn(d, site[1].id, product_ids), <<>>)
AsyncGetShippingOptionsForProducts(d, site_name, product_ids, postcode) ==
    AsyncQuoteSite(d, SitesNamed(d, site_name), product_ids, postcode)

(***************************************************************************)
(* services_async ChatService: the formatters of the options handed to the *)
(* API caller.                                                             *)
(***************************************************************************)
\* re.search(r'\b(\d{4})\b', message): four digits between word boundaries
IsWordCh(c) ==
    IsDigitCh(c) \/ c = "_" \/ \E k \in 1..26 : LowerChars[k] = c \/ UpperChars[k] = c
FourDigitsAt(s, i) ==
    /\ i + 3 <= Len(s)
    /\ \A k \in i..(i + 3) : IsDigitCh(s[k])
    /\ (i = 1 \/ ~IsWordCh(s[i - 1]))
    /\ (i + 4 > Len(s) \/ ~IsWordCh(s[i + 4]))
FirstFourDigits(s, I) ==
    IF I = {} THEN NoneStr ELSE SomeStr(SubSeq(s, SetMin(I), SetMin(I) + 3))
PostcodeInMessage(message) ==
    FirstFourDigits(message, {i \in 1..Len(message) : FourDigitsAt(message, i)})

\* re.search(key + '(\d+)"', s) for key = 'min_fee="', 'max_fee="'
RECURSIVE DigitRun(_, _)
DigitRun(s, i) == IF i <= Len(s) /\ IsDigitCh(s[i]) THEN 1 + DigitRun(s, i + 1) ELSE 0
ClosedDigitsAt(s, j, n) == n >= 1 /\ j + n <= Len(s) /\ s[j + n] = "\""
DigitsAttrMatchAt(s, key, i) ==
    /\ MatchAt(s, key, i)
    /\ ClosedDigitsAt(s, i + Len(key), DigitRun(s, i + Len(key)))
ReSearchDigitsAttr(s, key) ==
    MatchOf(s, key, {i \in 1..Len(s) : DigitsAttrMatchAt(s, key, i)})

\* ChatService._extract_fee_range(fee_string)
FeeRangeOf(min_match, max_match) ==
    IF min_match.found /\ max_match.found
    THEN <<"$">> \o min_match.group \o <<".","0","0"," ","-"," ","$">> \o max_match.group \o <<".","0","0">>
    ELSE IF min_match.found
    THEN <<"$">> \o min_match.group \o <<".","0","0","+">>
    ELSE <<"V","a","r","i","a","b","l","e">>
ExtractFeeRange(fee_string) ==
    FeeRangeOf(ReSearchDigitsAttr(fee_string, MinFeeKey),
               ReSearchDigitsAttr(fee_string, MaxFeeKey))

\* str(cost) for cost = settings.get("cost", "0"): a str, a number, None or
\* the dict of the nested form
StrOfValue(val) ==
    IF val.t = "str" THEN val.s
    ELSE IF val.t = "num" THEN NatToStr(val.n)
    ELSE <<"N","o","n","e">>
ReprOfValue(val) ==
    IF val.t = "str" THEN <<"'">> \o val.s \o <<"'">>
    ELSE StrOfValue(val)
StrOfCost(settings) ==
    IF settings.kind = "null" \/ settings.form = "absent" THEN <<"0">>
    ELSE IF settings.form = "bare" THEN StrOfValue(settings.val)
    ELSE IF settings.val.t = "none" THEN <<"{","}">>
    ELSE <<"{","'","v","a","l","u","e","'",":"," ">> \o ReprOfValue(settings.val) \o <<"}">>
\* cost and cost != "0"
CostIsSet(settings) ==
    IF settings.kind = "null" \/ settings.form = "absent" THEN FALSE
    ELSE IF settings.form = "nested" THEN settings.val.t # "none"
    ELSE IF settings.val.t = "str" THEN settings.val.s # <<>> /\ settings.val.s # <<"0">>
    ELSE IF settings.val.t = "num" THEN settings.val.n # 0
    ELSE FALSE

\* settings.get("cost", "0") as the value it is
RawCostOfSettings(settings) ==
    IF settings.kind = "null" \/ settings.form = "absent" THEN PyStr(<<"0">>)
    ELSE IF settings.form = "bare" THEN settings.val
    ELSE [t |-> "dict", s |-> StrOfCost(settings), n |-> 0]

\* a default option tagged like the product formatter tags a zero cost
DefaultOption_FreeTag(method, cost_type, display_cost) ==
    Return([method_id |-> method.method_id,
            title |-> IF method.title # "" THEN method.title ELSE method.method_title,
            cost |-> display_cost,
            cost_type |-> IF display_cost = <<"$","0",".","0","0">> THEN "free" ELSE cost_type,
            raw_cost |-> RawCostOfSettings(method.settings),
            description |-> IF method.title # "" THEN method.title ELSE method.method_title,
            origin |-> method.id])

\* the option _get_default_shipping_options appends for an enabled method;
\* _extract_fee_range of a cost that is not a str is a TypeError of re.search
DefaultOption(method, cost_type, display_cost) ==
    Return([method_id |-> method.method_id,
            title |-> IF method.title # "" THEN method.title ELSE method.method_title,
            cost |-> display_cost,
            cost_type |-> cost_type,
            raw_cost |-> RawCostOfSettings(method.settings),
            description |-> IF method.title # "" THEN method.title ELSE method.method_title,
            origin |-> method.id])
DefaultOptionOfMethod(method) ==
    IF method.settings.kind = "invalid" THEN Raise("JSONDecodeError")
    ELSE IF Contains(StrOfCost(method.settings), <<"[","f","e","e">>)
    THEN (IF method.settings.form = "nested" THEN Raise("TypeError")
          ELSE DefaultOption(method, "percentage", ExtractFeeRange(StrOfCost(method.settings))))
    ELSE IF CostIsSet(method.settings)
    THEN DefaultOption(method, "fixed", <<"$">> \o StrOfCost(method.settings))
    ELSE DefaultOption(method, "fixed", <<"$","0",".","0","0">>)

\* the loops over zones[:3] and zone.methods from method i on; the except
\* of the method turns any exception into the empty list
RECURSIVE DefaultOptions(_, _, _)
RECURSIVE DefaultAppend(_, _, _, _)
DefaultAppend(methods, i, shipping_options, o) ==
    IF o.kind = "raise" THEN Return(<<>>)
    ELSE DefaultOptions(methods, i + 1, Append(shipping_options, o.value))
DefaultOptions(methods, i, shipping_options) ==
    IF i > Len(methods) THEN Return(shipping_options)
    ELSE IF ~methods[i].enabled THEN DefaultOptions(methods, i + 1, shipping_options)
    ELSE DefaultAppend(methods, i, shipping_options, DefaultOptionOfMethod(methods[i]))

FirstThree(zones) == SubSeq(zones, 1, Min2(3, Len(zones)))
DefaultOptionsOfSite(d, site) ==
    IF site = <<>> THEN Return(<<>>)
    ELSE DefaultOptions(AsyncMethodsOfZones(d, FirstThree(ZonesOfSite(d, site[1].id)), 1),
                        1, <<>>)
\* ChatService._get_default_shipping_options(site_name)
ChatGetDefaultShippingOptions(d, site_name) ==
    DefaultOptionsOfSite(d, SitesNamed(d, site_name))

\* str(cost) of a float: the shortest decimal, with at least one digit
\* after the point
RECURSIVE TrimZeros(_)
TrimZeros(ds) ==
    IF Len(ds) > 1 /\ ds[Len(ds)] = "0" THEN TrimZeros(SubSeq(ds, 1, Len(ds) - 1)) ELSE ds
SixDigits(n) == SubSeq(NatToStr(1000000 + n), 2, 7)
StrOfFloat(x) ==
    (IF x < 0 THEN <<"-">> ELSE <<>>)
    \o NatToStr((IF x < 0 THEN 0 - x ELSE x) \div 1000000) \o <<".">>
    \o TrimZeros(SixDigits((IF x < 0 THEN 0 - x ELSE x) % 1000000))

\* the "Format for response" loop over the ShippingOption objects, whose cost
\* is a float: the branch for a cost that is no number is never taken
FormattedOption(option) ==
    [method_id |-> NatToStr(option.method_id[2]),
     title |-> option.method_title,
     cost |-> Money(option.cost),
     cost_type |-> IF option.cost > 0 THEN "fixed" ELSE "free",
     raw_cost |-> StrOfFloat(option.cost),
     description |-> option.method_title,
     origin |-> option.origin]
FormattedOptions(shipping_options) ==
    [k \in 1..Len(shipping_options) |-> FormattedOption(shipping_options[k])]
\* the except of the method answers an exception with the default options
FormattedOrDefault(d, site_name, shipping_options) ==
    IF shipping_options.kind = "raise"
    THEN ChatGetDefaultShippingOptions(d, site_name)
    ELSE Return(FormattedOptions(shipping_options.value))
ChatOptionsOfSite(d, site_name, site, product_ids, message) ==
    IF site = <<>> THEN Return(<<>>)
    ELSE FormattedOrDefault(d, site_name,
             AsyncGetShippingOptionsForProducts(d, site_name, product_ids,
                                                PostcodeInMessage(message)))
\* ChatService._get_shipping_options_for_products(site_name, products, message)
ChatGetShippingOptionsForProducts(d, site_name, products, message) ==
    ChatOptionsOfSite(d, site_name, SitesNamed(d, site_name), products, message)

(***************************************************************************)
(* services_async KnowledgeBaseService._parse_cost(cost_string)            *)
(***************************************************************************)
\* re.search(r'min_fee="(\d+\.?\d*)"', s): digits, an optional point, digits,
\* then a double quote; n is the length of the first run of digits
DecimalLen(s, j, n) ==
    IF j + n <= Len(s) /\ s[j + n] = "." THEN n + 1 + DigitRun(s, j + n + 1) ELSE n
ClosedDecimalAt(s, j, n) ==
    n >= 1 /\ j + DecimalLen(s, j, n) <= Len(s) /\ s[j + DecimalLen(s, j, n)] = "\""
DecimalAttrMatchAt(s, key, i) ==
    /\ MatchAt(s, key, i)
    /\ ClosedDecimalAt(s, i + Len(key), DigitRun(s, i + Len(key)))
DecimalGroupAt(s, j) == SubSeq(s, j, j + DecimalLen(s, j, DigitRun(s, j)) - 1)
DecimalMatchOf(s, key, I) ==
    IF I = {} THEN [found |-> FALSE, group |-> <<>>]
    ELSE [found |-> TRUE, group |-> DecimalGroupAt(s, SetMin(I) + Len(key))]
ReSearchDecimalAttr(s, key) ==
    DecimalMatchOf(s, key, {i \in 1..Len(s) : DecimalAttrMatchAt(s, key, i)})

\* float(numeric_str) if numeric_str else 0.0, 0.0 when float() fails
NumericOfChars(numeric_str) ==
    IF numeric_str = <<>> THEN 0 ELSE FloatOrZero(ParseFloat(numeric_str))
\* the digits and points of the string, joined
ParseCostOfChars(cost_string) == NumericOfChars(SelectSeq(cost_string, IsNumCh))
ParseCostOfFee(cost_string, min_fee_match) ==
    IF min_fee_match.found THEN ParseFloat(min_fee_match.group).v
    ELSE ParseCostOfChars(cost_string)
ParseCost(cost_string) ==
    IF cost_string = <<>> THEN 0
    ELSE IF Contains(cost_string, <<"[","f","e","e">>)
    THEN ParseCostOfFee(cost_string, ReSearchDecimalAttr(cost_string, MinFeeKey))
    ELSE ParseCostOfChars(cost_string)

(***************************************************************************)
(* main.calculate_shipping, POST /shipping/calculate (app.application has  *)
(* the same lines): the quotes of the site for a cart estimated at 50 per  *)
(* item, and the estimated total.                                          *)
(***************************************************************************)
ItemPrice == 50000000

\* the loop over shipping_options from option i on: the lowest cost seen among
\* the options that are neither "Calculated at checkout" nor "$0.00" and that
\* float() reads, 0.0 while there is none
LowerOf(lowest_shipping, cost_value) ==
    IF ~cost_value.ok THEN lowest_shipping
    ELSE IF lowest_shipping = 0 \/ cost_value.v < lowest_shipping THEN cost_value.v
    ELSE lowest_shipping
RECURSIVE LowestShipping(_, _, _)
LowestShipping(shipping_options, i, lowest_shipping) ==
    IF i > Len(shipping_options) THEN lowest_shipping
    ELSE IF shipping_options[i].cost \in {AtCheckout, <<"$","0",".","0","0">>}
    THEN LowestShipping(shipping_options, i + 1, lowest_shipping)
    ELSE LowestShipping(shipping_options, i + 1,
             LowerOf(lowest_shipping,
                     ParseFloat(RemoveChar(RemoveChar(shipping_options[i].cost, "$"), ","))))

\* f"${cart_total + lowest_shipping:.2f}" if cart_total > 0 else "TBD"
EstimatedTotal(cart_total, lowest_shipping) ==
    IF cart_total > 0 THEN Money(cart_total + lowest_shipping) ELSE <<"T","B","D">>

\* the response, or the HTTPException 500 the handler makes of any exception
ShippingCalculateResponse(cart_total, shipping_options) ==
    IF shipping_options.kind = "raise" THEN Raise("HTTPException")
    ELSE Return([shipping_options |-> SubSeq(shipping_options.value, 1,
                                             Min2(3, Len(shipping_options.value))),
                 total_cost |-> EstimatedTotal(cart_total,
                                    LowestShipping(shipping_options.value, 1, 0))])
CalculateShipping(d, site_name, cart_total) ==
    ShippingCalculateResponse(cart_total,
        GetShippingOptions(d, site_name,
                           IF cart_total > 0 THEN SomeNum(cart_total) ELSE NoneNum, NoneStr))

(***************************************************************************)
(* Inputs of the cost functions                                            *)
(***************************************************************************)
MaxCartHundreds == 10

\* cart_total: None, 0, 33.33 and the whole hundreds up to the bound
CartTotals ==
    {NoneNum, SomeNum(0), SomeNum(33330000)}
        \cup {SomeNum(k * 100000000) : k \in 1..MaxCartHundreds}

\* decimal literals with their value
Lit(s, v) == [s |-> s, v |-> v]
Dec2Lits ==
    { Lit(<<"0",".","0","0">>, 0), Lit(<<"1","0",".","0","0">>, 10000000), Lit(<<"1","0",".","5","0">>, 10500000),
      Lit(<<"2","0",".","0","0">>, 20000000), Lit(<<"3","5",".","0","0">>, 35000000), Lit(<<"1","0","0","0",".","0","0">>, 1000000000) }
PercentLits == { Lit(<<"1","4">>, 14000000), Lit(<<"2",".","5">>, 2500000), Lit(<<"1","0","0">>, 100000000) }
MinFeeLits == { Lit(<<"3","0">>, 30000000), Lit(<<"1","0",".","5","0">>, 10500000), Lit(<<"7","5">>, 75000000) }
MaxFeeLits == { Lit(<<"7","5">>, 75000000), Lit(<<"3","0">>, 30000000) }
NotANumber == <<"a","b","c">>

Quoted(key, val) == key \o val \o <<"\"">>
\* [fee percent="P" min_fee="MIN" max_fee="MAX"], min_fee and max_fee optional
FeeStr(p, mn, mx) ==
    FeeOpen \o Quoted(PercentKey, p)
        \o (IF mn.some THEN <<" ">> \o Quoted(MinFeeKey, mn.v) ELSE <<>>)
        \o (IF mx.some THEN <<" ">> \o Quoted(MaxFeeKey, mx.v) ELSE <<>>)
        \o <<"]">>

FixedStrings ==
    {d.s : d \in Dec2Lits} \cup {<<"$">> \o d.s : d \in Dec2Lits}
        \cup {<<"$","1","0">>, <<"$","2","0">>, <<"$","3","5">>, <<"0">>, <<>>, <<"1",",","0","0","0",".","0","0">>, <<" ","1","0",".","0","0"," ">>}
PercentStrings == {p.s \o <<"%">> : p \in PercentLits} \cup {<<"1","4"," ","%">>}
FeeStrings ==
    { FeeStr(p.s, mn, mx) :
        p \in PercentLits,
        mn \in {NoneStr} \cup {SomeStr(l.s) : l \in MinFeeLits},
        mx \in {NoneStr} \cup {SomeStr(l.s) : l \in MaxFeeLits} }
MalformedStrings ==
    { NotANumber, NotANumber \o <<"%">>, <<"F","r","e","e">>, <<"1",".","2",".","3">>,
      FeeStr(NotANumber, SomeStr(<<"3","0">>), SomeStr(<<"7","5">>)),
      FeeStr(<<"1","4">>, SomeStr(NotANumber), SomeStr(<<"7","5">>)),
      FeeStr(<<"1","4">>, SomeStr(<<"3","0">>), SomeStr(NotANumber)),
      FeeOpen \o Quoted(MinFeeKey, <<"3","0">>) \o <<"]">>,
      FeeOpen \o Quoted(PercentKey, <<>>) \o <<"]">> }
CostStrings == FixedStrings \cup PercentStrings \cup FeeStrings \cup MalformedStrings

\* what _calculate_shipping_cost returns on those
EvaluatedCosts ==
    { r.value : r \in { x \in { CalculateShippingCost(s, t) : s \in CostStrings, t \in CartTotals } :
                          x.kind = "return" } }

(***************************************************************************)
(* The store before any shipping data is read: the cost functions do not   *)
(* touch it.                                                               *)
(***************************************************************************)
NoDb == [sites |-> <<>>, zones |-> <<>>, methods |-> <<>>, rates |-> <<>>,
         classes |-> <<>>, products |-> <<>>]

\* no request is being served
Idle == op = "idle"

InitCost ==
    /\ db = NoDb
    /\ op = "idle"
    /\ args = <<>>
    /\ ret = Return(<<>>)

\* the caller has taken the outcome; the service waits for the next call
Finish ==
    /\ ~Idle
    /\ op' = "idle"
    /\ args' = <<>>
    /\ ret' = Return(<<>>)
    /\ UNCHANGED db

CallCalculateShippingCost ==
    \E s \in CostStrings, t \in CartTotals :
        /\ Idle
        /\ op' = "_calculate_shipping_cost"
        /\ args' = [cost_str |-> s, cart_total |-> t]
        /\ ret' = CalculateShippingCost(s, t)
        /\ UNCHANGED db

CallExtractNumericCost ==
    \E s \in EvaluatedCosts :
        /\ Idle
        /\ op' = "_extract_numeric_cost"
        /\ args' = [cost_str |-> s]
        /\ ret' = Return(ExtractNumericCost(s))
        /\ UNCHANGED db

\* the strings _parse_cost is run on: all but the fees of 100 percent without
\* min_fee, whose joined digits ("10075") pass the amounts kept here
ParseCostStrings ==
    CostStrings \ { FeeStr(<<"1","0","0">>, NoneStr, mx) :
                       mx \in {NoneStr} \cup {SomeStr(l.s) : l \in MaxFeeLits} }

CallParseCost ==
    \E s \in ParseCostStrings :
        /\ Idle
        /\ op' = "_parse_cost"
        /\ args' = [cost_str |-> s]
        /\ ret' = Return(ParseCost(s))
        /\ UNCHANGED db

NextCost == CallCalculateShippingCost \/ CallExtractNumericCost \/ CallParseCost \/ Finish

SpecCost == InitCost /\ [][NextCost]_vars

(***************************************************************************)
(* The stores the quote operations are run on: one site, "store1", with    *)
(* the classes heavy and oversized, four products, and one or two zones.   *)
(* Zone 1 holds two methods and zone 2, when there is one, a third; each   *)
(* method is drawn from the profiles below, each zone's locations from     *)
(* the location texts below.                                               *)
(***************************************************************************)
MaxCartItems == 2

Rate(class, cost) == [shipping_class_id |-> class, cost |-> cost]
Profile(method_id, title, enabled, settings, rates) ==
    [method_id |-> method_id, title |-> title, enabled |-> enabled,
     settings |-> settings, rates |-> rates]
Heavy == SomeNum(1)
Oversized == SomeNum(2)
FeeCost == FeeStr(<<"1","4">>, SomeStr(<<"3","0">>), SomeStr(<<"7","5">>))

FlatTen == Profile("flat_rate", "Flat Rate", TRUE, BareCost(PyStr(<<"$","1","0">>)), <<>>)
FlatClassed ==
    Profile("flat_rate", "Flat Rate", TRUE, NestedCost(PyStr(<<"2","0">>)),
            << Rate(NoneNum, SomeStr(<<"$","5">>)), Rate(Heavy, SomeStr(<<"$","2","0">>)),
               Rate(Oversized, SomeStr(<<"$","3","5">>)) >>)
FlatFreeHeavy ==
    Profile("flat_rate", "Flat Rate", TRUE, BareCost(PyStr(<<"$","1","0">>)),
            << Rate(Heavy, SomeStr(<<"$","0",".","0","0">>)) >>)
Freight ==
    Profile("flat_rate", "Freight", TRUE, BareCost(PyStr(FeeCost)),
            << Rate(NoneNum, NoneStr), Rate(Heavy, SomeStr(<<"1","4","%">>)),
               Rate(Oversized, SomeStr(FeeCost)) >>)
FlatDisabled ==
    Profile("flat_rate", "Flat Rate", FALSE, BareCost(PyStr(<<"$","1","0">>)),
            << Rate(Heavy, SomeStr(<<"$","5","0">>)) >>)
PickupDisabled ==
    Profile("local_pickup", "Free Pickup", FALSE, NoCost, << Rate(Heavy, SomeStr(<<"$","5","0">>)) >>)
PickupFree == Profile("local_pickup", "Free Pickup", TRUE, BareCost(PyNum(0)), <<>>)
FlatOther ==
    Profile("flat_rate", "Flat Rate", TRUE, NullSettings,
            << Rate(Heavy, SomeStr(<<"$","9","9">>)) >>)
Broken == Profile("flat_rate", "Express", TRUE, InvalidSettings, <<>>)
NestedNumber == Profile("flat_rate", "Express", TRUE, NestedCost(PyNum(15)), <<>>)
OpenFee ==
    Profile("flat_rate", "Courier", TRUE,
            BareCost(PyStr(FeeStr(<<"1","4">>, SomeStr(<<"3","0">>), NoneStr))), <<>>)

FirstProfiles == {FlatTen, FlatClassed, FlatFreeHeavy, Freight, FlatDisabled}
SecondProfiles == {PickupDisabled, PickupFree}
ThirdProfiles == {FlatOther, FlatTen, Broken, NestedNumber, OpenFee}

FirstLocations ==
    { NullLocations,
      LocationList(<<Location("state", SomeStr(<<"v","i","c">>))>>),
      LocationList(<<Location("postcode", SomeStr(<<"3","0","1","1">>))>>),
      LocationList(<<Location("region", SomeStr(<<"X","X">>))>>) }
SecondLocations ==
    { BlankLocations, InvalidLocations,
      LocationList(<<Location("state", SomeStr(<<"A","U",":","N","S","W">>)),
                     Location("postcode", SomeStr(<<"3","0","1","1">>))>>) }

MethodRow(id, zone_id, profile) ==
    [id |-> id, zone_id |-> zone_id, method_id |-> profile.method_id,
     title |-> profile.title, method_title |-> profile.title,
     enabled |-> profile.enabled, settings |-> profile.settings]
RateRows(method_pk, profile) ==
    [k \in 1..Len(profile.rates) |->
        [method_id |-> method_pk,
         shipping_class_id |-> profile.rates[k].shipping_class_id,
         cost |-> profile.rates[k].cost]]
ZoneRow(id, name, locations) ==
    [id |-> id, site_id |-> 1, name |-> name, locations |-> locations]

StoreBase ==
    [sites |-> << [id |-> 1, name |-> "store1"] >>,
     zones |-> <<>>, methods |-> <<>>, rates |-> <<>>,
     classes |-> << [id |-> 1, site_id |-> 1, slug |-> <<"h","e","a","v","y">>],
                    [id |-> 2, site_id |-> 1, slug |-> <<"o","v","e","r","s","i","z","e","d">>] >>,
     products |-> << [site_id |-> 1, woo_id |-> 101, shipping_class |-> SomeStr(<<"h","e","a","v","y">>)],
                     [site_id |-> 1, woo_id |-> 102, shipping_class |-> SomeStr(<<"o","v","e","r","s","i","z","e","d">>)],
                     [site_id |-> 1, woo_id |-> 103, shipping_class |-> NoneStr],
                     [site_id |-> 1, woo_id |-> 104, shipping_class |-> SomeStr(<<"b","u","l","k","y">>)] >>]

OneZoneStore(l1, p1, p2) ==
    [StoreBase EXCEPT
        !.zones = << ZoneRow(1, "Zone 1", l1) >>,
        !.methods = << MethodRow(1, 1, p1), MethodRow(2, 1, p2) >>,
        !.rates = RateRows(1, p1) \o RateRows(2, p2)]
TwoZoneStore(l1, p1, p2, l2, p3) ==
    [StoreBase EXCEPT
        !.zones = << ZoneRow(1, "Zone 1", l1), ZoneRow(2, "Zone 2", l2) >>,
        !.methods = << MethodRow(1, 1, p1), MethodRow(2, 1, p2), MethodRow(3, 2, p3) >>,
        !.rates = RateRows(1, p1) \o RateRows(2, p2) \o RateRows(3, p3)]

Stores ==
    { OneZoneStore(l1, p1, p2) :
        l1 \in FirstLocations, p1 \in FirstProfiles, p2 \in SecondProfiles }
    \cup
    { TwoZoneStore(l1, p1, p2, l2, p3) :
        l1 \in FirstLocations, p1 \in FirstProfiles, p2 \in SecondProfiles,
        l2 \in SecondLocations, p3 \in ThirdProfiles }

\* requests
SiteNames == {"store1", "nostore"}
Postcodes == {NoneStr, SomeStr(<<"3","0","1","1">>), SomeStr(<<"2","0","0","0">>), SomeStr(<<"A","B","C","D">>)}
QuoteCartTotals == {NoneNum, SomeNum(100000000)}
WooIds == {101, 102, 103, 104}
RECURSIVE Ascending(_)
Ascending(S) == IF S = {} THEN <<>> ELSE <<SetMin(S)>> \o Ascending(S \ {SetMin(S)})
\* the carts: up to MaxCartItems distinct products
Carts == { Ascending(S) : S \in { X \in SUBSET WooIds : Cardinality(X) <= MaxCartItems } }

Init ==
    /\ db \in Stores
    /\ op = "idle"
    /\ args = <<>>
    /\ ret = Return(<<>>)

CallGetShippingOptions ==
    \E site \in SiteNames, t \in QuoteCartTotals, pc \in Postcodes :
        /\ Idle
        /\ op' = "get_shipping_options"
        /\ args' = [site_name |-> site, products |-> <<>>, cart_total |-> t,
                    customer_postcode |-> pc]
        /\ ret' = GetShippingOptions(db, site, t, pc)
        /\ UNCHANGED db

CallGetShippingOptionsForProducts ==
    \E site \in SiteNames, cart \in Carts, t \in QuoteCartTotals, pc \in Postcodes :
        /\ Idle
        /\ op' = "get_shipping_options_for_products"
        /\ args' = [site_name |-> site, products |-> cart, cart_total |-> t,
                    customer_postcode |-> pc]
        /\ ret' = GetShippingOptionsForProducts(db, site, cart, t, pc)
        /\ UNCHANGED db

CallAsyncGetShippingOptionsForProducts ==
    \E site \in SiteNames, cart \in Carts, pc \in Postcodes :
        /\ Idle
        /\ op' = "async_get_shipping_options_for_products"
        /\ args' = [site_name |-> site, products |-> cart, cart_total |-> NoneNum,
                    customer_postcode |-> pc]
        /\ ret' = AsyncGetShippingOptionsForProducts(db, site, cart, pc)
        /\ UNCHANGED db

\* the customer messages: without digits, with a postcode, with digits that
\* are no postcode
Messages == { <<"h","i">>, <<"s","h","i","p"," ","t","o"," ","3","0","1","1"," ","p","l","e","a","s","e">>, <<"o","r","d","e","r"," ","1","2","3","4","5"," ","o","r"," ","x","2","0","0","0">> }

CallChatGetShippingOptionsForProducts ==
    \E site \in SiteNames, cart \in Carts \ {<<>>}, message \in Messages :
        /\ Idle
        /\ op' = "chat_get_shipping_options_for_products"
        /\ args' = [site_name |-> site, products |-> cart, cart_total |-> NoneNum,
                    customer_postcode |-> PostcodeInMessage(message), message |-> message]
        /\ ret' = ChatGetShippingOptionsForProducts(db, site, cart, message)
        /\ UNCHANGED db

CallChatGetDefaultShippingOptions ==
    \E site \in SiteNames :
        /\ Idle
        /\ op' = "chat_get_default_shipping_options"
        /\ args' = [site_name |-> site, products |-> <<>>, cart_total |-> NoneNum,
                    customer_postcode |-> NoneStr]
        /\ ret' = ChatGetDefaultShippingOptions(db, site)
        /\ UNCHANGED db

\* items of the request, by the sum of their quantities
CallCalculateShipping ==
    \E site \in SiteNames, quantity \in 0..MaxCartItems :
        /\ Idle
        /\ op' = "calculate_shipping"
        /\ args' = [site_name |-> site, products |-> <<>>,
                    cart_total |-> SomeNum(ItemPrice * quantity),
                    customer_postcode |-> NoneStr]
        /\ ret' = CalculateShipping(db, site, ItemPrice * quantity)
        /\ UNCHANGED db

Next ==
    \/ CallGetShippingOptions
    \/ CallGetShippingOptionsForProducts
    \/ CallAsyncGetShippingOptionsForProducts
    \/ CallChatGetShippingOptionsForProducts
    \/ CallChatGetDefaultShippingOptions
    \/ CallCalculateShipping
    \/ Finish

Spec == Init /\ [][Next]_vars

(***************************************************************************)
(* Zone matching on its own: _postcode_matches_zone and                    *)
(* _is_in_metro_radius called with enumerated postcodes and zones.         *)
(***************************************************************************)
\* a postcode text and the integer int() reads from it (none: not an integer)
Pc(s, n) == [s |-> s, n |-> n]
GeoPostcodes ==
    { Pc(<<"2","9","9","9">>, SomeNum(2999)), Pc(<<"3","0","0","0">>, SomeNum(3000)), Pc(<<"3","0","1","1">>, SomeNum(3011)),
      Pc(<<"3","1","9","9">>, SomeNum(3199)), Pc(<<"3","2","0","0">>, SomeNum(3200)), Pc(<<"3","9","9","9">>, SomeNum(3999)),
      Pc(<<"4","0","0","0">>, SomeNum(4000)), Pc(<<"2","0","0","0">>, SomeNum(2000)), Pc(<<"0","8","0","0">>, SomeNum(800)),
      Pc(<<" ","3","0","1","1"," ">>, SomeNum(3011)), Pc(<<"A","B","C","D">>, NoneNum), Pc(<<"3","0"," ","1","1">>, NoneNum),
      Pc(<<"3","0","1","1",".","0">>, NoneNum) }

ZoneNames ==
    { <<"Z","o","n","e"," ","1">>, <<"M","e","l","b","o","u","r","n","e"," ","M","e","t","r","o">>, <<"M","e","l","b","o","u","r","n","e"," ","5","0","k","m"," ","R","a","d","i","u","s">>, <<"S","y","d","n","e","y"," ","M","e","t","r","o">>, <<"M","e","t","r","o">> }
VicCodes == { <<"V","I","C">>, <<"v","i","c">>, <<"V","i","c">> }
\* codes found in neither table
UnknownCodes == { <<"X","X">>, <<"G","E","E","L","O","N","G">> }
GeoLocationLists ==
    { NullLocations, BlankLocations, InvalidLocations, LocationList(<<>>),
      LocationList(<<Location("postcode", SomeStr(<<"3","0","1","1">>))>>),
      LocationList(<<Location("country", SomeStr(<<"A","U">>))>>),
      LocationList(<<Location("city", SomeStr(<<"F","o","o","t","s","c","r","a","y">>))>>),
      LocationList(<<Location("state", NoneStr)>>) }
    \cup { LocationList(<<Location("state", SomeStr(c))>>) : c \in VicCodes }
    \cup { LocationList(<<Location(t, SomeStr(c))>>) :
             t \in {"state", "city", "region"}, c \in UnknownCodes }
    \cup { LocationList(<<Location("region", SomeStr(c)), Location("state", SomeStr(<<"V","I","C">>))>>) :
             c \in UnknownCodes }
GeoZones == { ZoneRow(1, name, l) : name \in ZoneNames, l \in GeoLocationLists }

InitGeo ==
    /\ db = NoDb
    /\ op = "idle"
    /\ args = <<>>
    /\ ret = Return(<<>>)

CallPostcodeMatchesZone ==
    \E pc \in GeoPostcodes, zone \in GeoZones :
        /\ Idle
        /\ op' = "_postcode_matches_zone"
        /\ args' = [customer_postcode |-> pc, zone |-> zone]
        /\ ret' = PostcodeMatchesZone(pc.s, zone)
        /\ UNCHANGED db

CallIsInMetroRadius ==
    \E pc \in {p \in GeoPostcodes : p.n.some}, name \in ZoneNames :
        /\ Idle
        /\ op' = "_is_in_metro_radius"
        /\ args' = [postcode |-> pc.n.v, zone_name |-> Upper(name)]
        /\ ret' = Return(IsInMetroRadius(pc.n.v, Upper(name)))
        /\ UNCHANGED db

NextGeo ==
    \/ CallPostcodeMatchesZone
    \/ CallIsInMetroRadius
    \/ Finish

SpecGeo == InitGeo /\ [][NextGeo]_vars

(***************************************************************************)
(* Chat requests and the conversation tables.  Two requests run at a time, *)
(* through services.ChatService.generate_response or through its fork      *)
(* services_async.ChatService.get_response.  Under SpecChat the variables  *)
(* hold, per request slot p: op[p] the place the request is at, args[p]    *)
(* the request with what it has read and written so far, ret[p] what the   *)
(* caller got.  db holds the committed rows:                               *)
(*   conversations [id, conversation_id, site_id], conversation_id unique  *)
(*   messages      [conversation, role, request], in insertion order       *)
(*   key           what conversation_messages.conversation_id refers to:   *)
(*                 conversations.conversation_id, as db_models.py and      *)
(*                 create_conversation_tables.py have it and               *)
(*                 generate_response writes it, or conversations.id, as    *)
(*                 create_tables_simple.py has it and _save_message        *)
(*                 writes it.  A statement on conversation_messages that   *)
(*                 compares or stores the other kind of key fails.         *)
(*   served        requests started so far                                 *)
(* The fields request of a row and fork, supplied, found, seen and error   *)
(* of a request are not data of the program: they record which request     *)
(* wrote a row and what happened, so that properties can be stated.        *)
(***************************************************************************)
MaxRequests == 2
HistoryLimit == 10
Procs == {1, 2}
ChatSites == {"store1", "nostore"}

\* a conversation id given by the caller, or the uuid made for request n
ConvId(gen, n) == [gen |-> gen, n |-> n]
GivenId == ConvId(FALSE, 1)
ConversationRow(id, conversation_id, fork, request) ==
    [id |-> id, conversation_id |-> conversation_id, site_id |-> 1,
     fork |-> fork, request |-> request]
MessageRow(conversation, role, fork, request) ==
    [conversation |-> conversation, role |-> role, fork |-> fork, request |-> request]

\* the fork whose message statements fit the key of the tables
ForkOfKey(key) == IF key = "conversation_id" THEN "sync" ELSE "async"

\* session.query(Conversation).filter_by(conversation_id=conversation_id)
ConversationsWith(d, conversation_id) ==
    SelectSeq(d.conversations, LAMBDA c : c.conversation_id = conversation_id)
\* the messages of a conversation, ordered by created_at
MessagesOf(d, conversation_id) ==
    SelectSeq(d.messages, LAMBDA m :
        \E k \in 1..Len(d.conversations) :
            /\ d.conversations[k].conversation_id = conversation_id
            /\ d.conversations[k].id = m.conversation)
\* .order_by(created_at).limit(10): the first rows of the ascending order
Limit(rows, n) == SubSeq(rows, 1, Min2(n, Len(rows)))
\* a query that keeps the most recent rows
Limit_Latest(rows, n) == SubSeq(rows, Len(rows) - Min2(n, Len(rows)) + 1, Len(rows))

\* a request slot that serves nothing
NoRequest ==
    [fork |-> "none", request |-> 0, site_name |-> "", conversation_id |-> GivenId,
     supplied |-> FALSE, found |-> FALSE, created |-> FALSE,
     history |-> <<>>, seen |-> <<>>, error |-> "none"]
NewRequest(fork, request, site_name, conversation_id, supplied) ==
    [NoRequest EXCEPT !.fork = fork, !.request = request, !.site_name = site_name,
                      !.conversation_id = conversation_id, !.supplied = supplied]
NoResponse == [kind |-> "none"]
\* the dict generate_response returns, lists by their lengths
Response(request, response, products, shipping_options) ==
    [kind |-> "return", response |-> response,
     products |-> Min2(3, products),
     shipping_options |-> Min2(3, shipping_options),
     conversation_id |-> request.conversation_id]

(***************************************************************************)
(* services.ChatService.generate_response                                  *)
(***************************************************************************)
\* the outer except: the "DEBUG ERROR" response with the lists emptied; the
\* session closes without a commit
DebugResponse_Raise(request) == [kind |-> "raise", exc |-> "Exception"]
DebugResponse(request) == Response(request, "debug", 0, 0)

\* conversation_id = str(uuid.uuid4()) when none was given
StartGenerateResponse(p) ==
    \E site \in ChatSites, supplied \in BOOLEAN :
        /\ op[p] = "idle"
        /\ db.served < MaxRequests
        /\ db' = [db EXCEPT !.served = @ + 1]
        /\ op' = [op EXCEPT ![p] = "find"]
        /\ args' = [args EXCEPT ![p] =
               NewRequest("sync", db.served + 1, site,
                          IF supplied THEN GivenId ELSE ConvId(TRUE, db.served + 1), supplied)]
        /\ UNCHANGED ret

\* the history query of a request whose conversation is there
HistoryRead(d, request) ==
    [request EXCEPT !.found = TRUE,
                    !.seen = MessagesOf(d, request.conversation_id),
                    !.history = Limit(MessagesOf(d, request.conversation_id), HistoryLimit)]

\* the site and conversation lookups; with the conversation found, the history
\* query and session.add(user_message)
FindConversation(p) ==
    /\ op[p] = "find"
    /\ args[p].fork = "sync"
    /\ UNCHANGED db
    /\ IF args[p].site_name # "store1"
       THEN /\ op' = [op EXCEPT ![p] = "done"]
            /\ args' = [args EXCEPT ![p].error = "ValueError"]
            /\ ret' = [ret EXCEPT ![p] = DebugResponse(args[p])]
       ELSE IF ConversationsWith(db, args[p].conversation_id) = <<>>
       THEN /\ op' = [op EXCEPT ![p] = "create"]
            /\ UNCHANGED <<args, ret>>
       ELSE IF db.key # "conversation_id"
       THEN /\ op' = [op EXCEPT ![p] = "done"]
            /\ args' = [args EXCEPT ![p].found = TRUE, ![p].error = "DataError"]
            /\ ret' = [ret EXCEPT ![p] = DebugResponse(args[p])]
       ELSE /\ op' = [op EXCEPT ![p] = "llm"]
            /\ args' = [args EXCEPT ![p] = HistoryRead(db, args[p])]
            /\ UNCHANGED ret

\* another open transaction has inserted the same conversation_id: the
\* unique index makes this insert wait for it to end
InsertWaits(p) ==
    \E q \in Procs \ {p} :
        /\ op[q] = "llm"
        /\ args[q].created
        /\ args[q].conversation_id = args[p].conversation_id

\* session.add(conversation); session.flush(), then the history query (no
\* message can be there) and session.add(user_message)
CreateConversation(p) ==
    /\ op[p] = "create"
    /\ args[p].fork = "sync"
    /\ ~InsertWaits(p)
    /\ UNCHANGED db
    /\ IF ConversationsWith(db, args[p].conversation_id) # <<>>
       THEN /\ op' = [op EXCEPT ![p] = "done"]
            /\ args' = [args EXCEPT ![p].error = "IntegrityError"]
            /\ ret' = [ret EXCEPT ![p] = DebugResponse(args[p])]
       ELSE IF db.key # "conversation_id"
       THEN /\ op' = [op EXCEPT ![p] = "done"]
            /\ args' = [args EXCEPT ![p].error = "DataError"]
            /\ ret' = [ret EXCEPT ![p] = DebugResponse(args[p])]
       ELSE /\ op' = [op EXCEPT ![p] = "llm"]
            /\ args' = [args EXCEPT ![p].created = TRUE]
            /\ UNCHANGED ret

\* the primary key of the conversation of a request, the next one when the
\* request inserts the row
ConversationPk(d, request) ==
    IF request.created THEN Len(d.conversations) + 1
    ELSE ConversationsWith(d, request.conversation_id)[1].id
\* session.commit(): the conversation when it was created here, the user
\* message and the assistant message
Committed(d, request) ==
    [d EXCEPT
        !.conversations =
            IF request.created
            THEN Append(@, ConversationRow(Len(@) + 1, request.conversation_id,
                                           request.fork, request.request))
            ELSE @,
        !.messages =
            @ \o << MessageRow(ConversationPk(d, request), "user", request.fork, request.request),
                    MessageRow(ConversationPk(d, request), "assistant", request.fork, request.request) >>]
\* a handler that commits what the session holds when the LLM call fails
RolledBack_Commit(d, request) ==
    [d EXCEPT
        !.conversations =
            IF request.created
            THEN Append(@, ConversationRow(Len(@) + 1, request.conversation_id,
                                           request.fork, request.request))
            ELSE @,
        !.messages =
            Append(@, MessageRow(ConversationPk(d, request), "user", request.fork, request.request))]
\* session.rollback(): nothing of the request stays
RolledBack(d, request) == d

ProductCounts == {0, 5}
ShippingCounts == {0, 4}
\* the rest of the request: product search and shipping quotes, which may
\* raise, then the LLM call, then commit or rollback
AnswerOf(p, outcome, products, shipping_options) ==
    IF outcome = "quote_raises"
    THEN /\ db' = RolledBack(db, args[p])
         /\ args' = [args EXCEPT ![p].error = "NameError"]
         /\ ret' = [ret EXCEPT ![p] = DebugResponse(args[p])]
    ELSE IF outcome = "llm_fails"
    THEN /\ db' = RolledBack(db, args[p])
         /\ args' = [args EXCEPT ![p].error = "APIError"]
         /\ ret' = [ret EXCEPT ![p] = Response(args[p], "apology", 0, shipping_options)]
    ELSE /\ db' = Committed(db, args[p])
         /\ UNCHANGED args
         /\ ret' = [ret EXCEPT ![p] = Response(args[p], "reply", products, shipping_options)]
Answer(p) ==
    \E outcome \in {"quote_raises", "llm_fails", "llm_ok"},
       products \in ProductCounts, shipping_options \in ShippingCounts :
        /\ op[p] = "llm"
        /\ args[p].fork = "sync"
        /\ op' = [op EXCEPT ![p] = "done"]
        /\ AnswerOf(p, outcome, products, shipping_options)

(***************************************************************************)
(* services_async.ChatService.get_response.  Each of its database steps    *)
(* opens a session of its own, commits in it, and has its exceptions       *)
(* logged and dropped by get_response.                                     *)
(***************************************************************************)
\* conversation_id = f"qrm_{uuid.uuid4().hex[:12]}" when none was given
StartGetResponse(p) ==
    \E site \in ChatSites, supplied \in BOOLEAN :
        /\ op[p] = "idle"
        /\ db.served < MaxRequests
        /\ db' = [db EXCEPT !.served = @ + 1]
        /\ op' = [op EXCEPT ![p] = "find"]
        /\ args' = [args EXCEPT ![p] =
               NewRequest("async", db.served + 1, site,
                          IF supplied THEN GivenId ELSE ConvId(TRUE, db.served + 1), supplied)]
        /\ UNCHANGED ret

\* _get_or_create_conversation up to the insert: an unknown site raises
\* ValueError; the history query compares the message key with conversation.id
AsyncFindConversation(p) ==
    /\ op[p] = "find"
    /\ args[p].fork = "async"
    /\ UNCHANGED <<db, ret>>
    /\ IF args[p].site_name # "store1"
       THEN /\ op' = [op EXCEPT ![p] = "save_user"]
            /\ args' = [args EXCEPT ![p].error = "ValueError"]
       ELSE IF ConversationsWith(db, args[p].conversation_id) = <<>>
       THEN /\ op' = [op EXCEPT ![p] = "create"]
            /\ UNCHANGED args
       ELSE IF db.key # "id"
       THEN /\ op' = [op EXCEPT ![p] = "save_user"]
            /\ args' = [args EXCEPT ![p].found = TRUE, ![p].error = "DataError"]
       ELSE /\ op' = [op EXCEPT ![p] = "save_user"]
            /\ args' = [args EXCEPT ![p] = HistoryRead(db, args[p])]

\* session.add(conversation); await session.commit(); return []
AsyncCreateConversation(p) ==
    /\ op[p] = "create"
    /\ args[p].fork = "async"
    /\ op' = [op EXCEPT ![p] = "save_user"]
    /\ UNCHANGED ret
    /\ IF ConversationsWith(db, args[p].conversation_id) # <<>>
       THEN /\ args' = [args EXCEPT ![p].error = "IntegrityError"]
            /\ UNCHANGED db
       ELSE /\ args' = [args EXCEPT ![p].created = TRUE]
            /\ db' = [db EXCEPT !.conversations =
                          Append(@, ConversationRow(Len(@) + 1, args[p].conversation_id,
                                                    "async", args[p].request))]

\* _save_message: scalar_one() needs the conversation; the message carries
\* conversation.id as its key
SaveMessage_Never(d, request, role) == d
SaveMessage(d, request, role) ==
    IF ConversationsWith(d, request.conversation_id) = <<>> \/ d.key # "id"
    THEN d
    ELSE [d EXCEPT !.messages =
              Append(@, MessageRow(ConversationsWith(d, request.conversation_id)[1].id,
                                   role, request.fork, request.request))]

\* the user message is saved before the LLM is called
SaveUserMessage(p) ==
    /\ op[p] = "save_user"
    /\ args[p].fork = "async"
    /\ db' = SaveMessage(db, args[p], "user")
    /\ op' = [op EXCEPT ![p] = "llm"]
    /\ UNCHANGED <<args, ret>>

\* search_products, _build_context and _get_ai_response: an exception leaves
\* get_response, and api.chat answers with an HTTPException
AsyncAnswer(p) ==
    \E outcome \in {"llm_fails", "llm_ok"} :
        /\ op[p] = "llm"
        /\ args[p].fork = "async"
        /\ UNCHANGED db
        /\ IF outcome = "llm_fails"
           THEN /\ op' = [op EXCEPT ![p] = "done"]
                /\ args' = [args EXCEPT ![p].error = "APIError"]
                /\ ret' = [ret EXCEPT ![p] = [kind |-> "raise", exc |-> "HTTPException"]]
           ELSE /\ op' = [op EXCEPT ![p] = "save_reply"]
                /\ UNCHANGED <<args, ret>>

\* the assistant message is saved, then the ChatResponse is built
SaveAssistantMessage(p) ==
    \E products \in ProductCounts, shipping_options \in ShippingCounts :
        /\ op[p] = "save_reply"
        /\ args[p].fork = "async"
        /\ db' = SaveMessage(db, args[p], "assistant")
        /\ op' = [op EXCEPT ![p] = "done"]
        /\ ret' = [ret EXCEPT ![p] = Response(args[p], "reply", products, shipping_options)]
        /\ UNCHANGED args

\* the caller takes the answer
FinishChat(p) ==
    /\ op[p] = "done"
    /\ op' = [op EXCEPT ![p] = "idle"]
    /\ args' = [args EXCEPT ![p] = NoRequest]
    /\ ret' = [ret EXCEPT ![p] = NoResponse]
    /\ UNCHANGED db

(***************************************************************************)
(* The tables at the start: empty, or holding the conversation GivenId     *)
(* with StoredPairs exchanges written earlier by the fork that fits the    *)
(* key of the tables.  Earlier requests are numbered below zero.           *)
(***************************************************************************)
StoredPairs == 6
StoredMessages(key) ==
    [k \in 1..(2 * StoredPairs) |->
        MessageRow(1, IF k % 2 = 1 THEN "user" ELSE "assistant",
                   ForkOfKey(key), 0 - ((k + 1) \div 2))]
EmptyTables(key) ==
    [key |-> key, conversations |-> <<>>, messages |-> <<>>, served |-> 0]
StoredTables(key) ==
    [key |-> key,
     conversations |-> << ConversationRow(1, GivenId, ForkOfKey(key), 0 - 1) >>,
     messages |-> StoredMessages(key), served |-> 0]

InitChat ==
    /\ \E key \in {"conversation_id", "id"} :
           db \in {EmptyTables(key), StoredTables(key)}
    /\ op = [p \in Procs |-> "idle"]
    /\ args = [p \in Procs |-> NoRequest]
    /\ ret = [p \in Procs |-> NoResponse]

NextChat ==
    \E p \in Procs :
        \/ StartGenerateResponse(p)
        \/ FindConversation(p)
        \/ CreateConversation(p)
        \/ Answer(p)
        \/ StartGetResponse(p)
        \/ AsyncFindConversation(p)
        \/ AsyncCreateConversation(p)
        \/ SaveUserMessage(p)
        \/ AsyncAnswer(p)
        \/ SaveAssistantMessage(p)
        \/ FinishChat(p)

SpecChat == InitChat /\ [][NextChat]_vars

(***************************************************************************)
(* Claims about the quote operations (checked under Spec)                  *)
(***************************************************************************)
SyncQuoted ==
    /\ op \in {"get_shipping_options", "get_shipping_options_for_products"}
    /\ ret.kind = "return"
SiteFound == SitesNamed(db, args.site_name) # <<>>
SiteZones == ZonesOfSite(db, SitesNamed(db, args.site_name)[1].id)
MethodByPk(pk) == (SelectSeq(db.methods, LAMBDA m : m.id = pk))[1]
SetMax(S) == CHOOSE x \in S : \A y \in S : x >= y
Range(f) == {f[k] : k \in DOMAIN f}

\* the class ids the cart of the request resolves to
CartClassIds == ShippingClassIds(db, SitesNamed(db, args.site_name)[1].id, args.products)
\* the numeric values of the class rates of method pk that have a cost
ClassRateValues(pk) ==
    { ExtractNumericCost(CalculateShippingCost(r.cost.v, args.cart_total).value) :
        r \in { x \in Range(ClassRates(db, pk, CartClassIds)) : Truthy(x.cost) } }

\* C1: when the cart's products resolve to classes for which the quoted method
\* has class rate rows, the quoted cost is the maximum of those evaluated rates,
\* whatever the method's no-class rate or base cost.
C1_MaxOfClassRates ==
    (op = "get_shipping_options_for_products" /\ ret.kind = "return" /\ SiteFound) =>
        \A k \in 1..Len(ret.value) :
            ClassRateValues(ret.value[k].origin) # {} =>
                ret.value[k].cost = Money(SetMax(ClassRateValues(ret.value[k].origin)))

\* the postcode of the request matches no zone of its site
NoZoneMatches ==
    /\ Truthy(args.customer_postcode)
    /\ SiteFound
    /\ SiteZones # <<>>
    /\ \A k \in 1..Len(SiteZones) :
          PostcodeMatchesZone(args.customer_postcode.v, SiteZones[k]) = Return(FALSE)

\* C2: a postcode that matches no zone of a site with zones gets the quotes of
\* all zones, the list returned without a postcode.
C2_FailOpen ==
    (op = "get_shipping_options" /\ NoZoneMatches) =>
        ret = GetShippingOptions(db, args.site_name, args.cart_total, NoneStr)

\* a postcode matching neither of two zones has been answered with quotes of both
C2_Witness ==
    /\ op = "get_shipping_options"
    /\ NoZoneMatches
    /\ Len(SiteZones) = 2
    /\ ret.kind = "return"
    /\ \E j, k \in 1..Len(ret.value) :
          /\ MethodByPk(ret.value[j].origin).zone_id = 1
          /\ MethodByPk(ret.value[k].origin).zone_id = 2

\* C3: a zone with empty or absent locations matches every postcode, malformed
\* ones included, so the postcode filter never removes its methods.
C3_UniversalZoneMatches ==
    (op = "get_shipping_options" /\ Truthy(args.customer_postcode) /\ SiteFound) =>
        \A k \in 1..Len(SiteZones) :
            SiteZones[k].locations.kind \in {"null", "blank"} =>
                /\ PostcodeMatchesZone(args.customer_postcode.v, SiteZones[k]) = Return(TRUE)
                /\ ret.kind = "return" =>
                      \A m \in Range(EnabledMethodsOfZone(db, SiteZones[k].id)) :
                          \E j \in 1..Len(ret.value) : ret.value[j].origin = m.id

\* C4: the synchronous quote operations never quote a method that is not
\* enabled, whether its zone matched, was kept by the fallback, or no postcode
\* was given.
C4_NoDisabledQuoted ==
    SyncQuoted =>
        \A k \in 1..Len(ret.value) :
            /\ MethodByPk(ret.value[k].origin).enabled
            /\ MethodByPk(ret.value[k].origin).method_id = ret.value[k].method_id
            /\ MethodByPk(ret.value[k].origin).title = ret.value[k].title

\* zone 1 matched the postcode and holds a disabled method next to a quoted one
C4_Witness ==
    /\ op = "get_shipping_options_for_products"
    /\ ret.kind = "return"
    /\ args.customer_postcode = SomeStr(<<"3","0","1","1">>)
    /\ PostcodeMatchesZone(<<"3","0","1","1">>, db.zones[1]) = Return(TRUE)
    /\ ~db.methods[2].enabled
    /\ db.methods[1].enabled
    /\ Len(ret.value) = 1
    /\ ret.value[1].origin = 1

\* C5: the asynchronous get_shipping_options_for_products never returns an
\* option of a method that is not enabled.
C5_AsyncNoDisabledQuoted ==
    (op = "async_get_shipping_options_for_products" /\ ret.kind = "return") =>
        \A k \in 1..Len(ret.value) : MethodByPk(ret.value[k].origin).enabled

\* the asynchronous operation reached a disabled method that has a cost: the
\* request ended in the exception of building its option
C5_Witness ==
    /\ op = "async_get_shipping_options_for_products"
    /\ SiteFound
    /\ ~AsyncMethodCost(db.methods[1], ProductsIn(db, 1, args.products)).some
    /\ ~db.methods[2].enabled
    /\ AsyncMethodCost(db.methods[2], ProductsIn(db, 1, args.products)).some
    /\ ret = Raise("AttributeError")

\* no product of the cart carries a shipping class
NoClassOnCart ==
    \A k \in 1..Len(args.products) :
        \A x \in Range(ProductsFound(db, 1, args.products[k])) : ~Truthy(x.shipping_class)
\* the rate rows of method pk with a null class and a cost
NullClassCosts(pk) ==
    SelectSeq(db.rates, LAMBDA r :
        r.method_id = pk /\ ~r.shipping_class_id.some /\ Truthy(r.cost))

\* C6: without a shipping class on the cart, a method is quoted from its
\* null-class rate row when that row has a cost, and else from the cost
\* field of its settings.
C6_NoClassFallback ==
    (SyncQuoted /\ NoClassOnCart) =>
        \A k \in 1..Len(ret.value) :
            LET pk == ret.value[k].origin
                raw == IF NullClassCosts(pk) # <<>>
                       THEN NullClassCosts(pk)[1].cost.v
                       ELSE CostValueOfSettings(MethodByPk(pk).settings).s
            IN  ret.value[k].cost = CalculateShippingCost(raw, args.cart_total).value

\* a cart of one class-less product: the method with settings cost 20 and a
\* null-class rate of $5 is quoted $5.00, the method without such a rate 
\* from its settings
C6_Witness ==
    /\ op = "get_shipping_options_for_products"
    /\ ret.kind = "return"
    /\ args.products = <<103>>
    /\ Len(ret.value) = 3
    /\ NullClassCosts(1) # <<>>
    /\ MethodByPk(1).settings = NestedCost(PyStr(<<"2","0">>))
    /\ ret.value[1].cost = <<"$","5",".","0","0">>
    /\ NullClassCosts(3) = <<>>
    /\ MethodByPk(3).settings = BareCost(PyStr(<<"$","1","0">>))
    /\ ret.value[3].cost = <<"$","1","0",".","0","0">>

\* the enabled methods of the zones of the request's site, zone by zone
SiteEnabledMethods == MethodsOfZones(db, SiteZones, 1)

\* C11: a method whose resolution fails (settings that are not JSON, a cost
\* that cannot be parsed) is skipped: get_shipping_options raises nothing and
\* still quotes every other enabled method.
C11_FailingMethodSkipped ==
    (op = "get_shipping_options" /\ ~Truthy(args.customer_postcode) /\ SiteFound) =>
        /\ ret.kind = "return"
        /\ \A m \in Range(SiteEnabledMethods) :
              OptionOfMethod(db, m, args.cart_total).kind = "return" =>
                  \E j \in 1..Len(ret.value) : ret.value[j].origin = m.id

\* C12: a zone whose locations text is not valid JSON matches every postcode:
\* zone matching answers True for it, in the synchronous service and in the
\* asynchronous one.
C12_MalformedLocationsMatch ==
    (op # "idle" /\ Truthy(args.customer_postcode) /\ SiteFound) =>
        \A k \in 1..Len(SiteZones) :
            SiteZones[k].locations.kind = "invalid" =>
                /\ AsyncPostcodeMatchesZone(args.customer_postcode.v, SiteZones[k])
                /\ PostcodeMatchesZone(args.customer_postcode.v, SiteZones[k]) = Return(TRUE)

\* C13: for a site name that does not exist each of the three quote
\* operations returns the empty list and raises nothing, whatever the cart,
\* the postcode and the cart total are.
C13_UnknownSiteEmpty ==
    (op \notin {"idle", "calculate_shipping"} /\ ~SiteFound) => ret = Return(<<>>)

\* the three operations have answered a request for an unknown site that came
\* with a cart or a postcode
C13_Witness ==
    /\ op # "idle"
    /\ ~SiteFound
    /\ ret = Return(<<>>)
    /\ \/ op = "get_shipping_options" /\ Truthy(args.customer_postcode) /\ args.cart_total.some
       \/ op = "get_shipping_options_for_products" /\ Len(args.products) = 2
       \/ op = "async_get_shipping_options_for_products" /\ Len(args.products) = 2

\* the site of the request has one zone, without location restriction, whose
\* only enabled method is "Flat Rate" with the settings cost "$10"
OneFlatRateSite ==
    /\ SiteFound
    /\ Len(SiteZones) = 1
    /\ SiteZones[1].locations.kind \in {"null", "blank"}
    /\ Len(SiteEnabledMethods) = 1
    /\ SiteEnabledMethods[1].title = "Flat Rate"
    /\ SiteEnabledMethods[1].settings = BareCost(PyStr(<<"$","1","0">>))
    /\ NullClassCosts(SiteEnabledMethods[1].id) = <<>>

\* C15: for such a site a quote request with an empty cart, no postcode and
\* no cart total returns exactly one quote: "Flat Rate", "$10.00", fixed.
C15_FlatRateScenario ==
    (/\ op \in {"get_shipping_options", "get_shipping_options_for_products"}
     /\ OneFlatRateSite
     /\ args.products = <<>>
     /\ args.customer_postcode = NoneStr
     /\ args.cart_total = NoneNum) =>
        /\ ret.kind = "return"
        /\ Len(ret.value) = 1
        /\ ret.value[1].method_id = SiteEnabledMethods[1].method_id
        /\ ret.value[1].title = "Flat Rate"
        /\ ret.value[1].cost = <<"$","1","0",".","0","0">>
        /\ ret.value[1].cost_type = "fixed"

\* the scenario has been quoted through get_shipping_options_for_products
C15_Witness ==
    /\ op = "get_shipping_options_for_products"
    /\ OneFlatRateSite
    /\ args.products = <<>>
    /\ args.customer_postcode = NoneStr
    /\ args.cart_total = NoneNum
    /\ ret.kind = "return"
    /\ Len(ret.value) = 1

\* "$" followed by digits, a point and two digits
IsDollarAmount(s) ==
    /\ Len(s) >= 5
    /\ s[1] = "$"
    /\ s[Len(s) - 2] = "."
    /\ \A i \in 2..Len(s) : i # Len(s) - 2 => IsDigitCh(s[i])
\* "$A - $B"
IsDollarRange(s) ==
    \E i \in 1..Len(s) :
        /\ MatchAt(s, <<" ","-"," ">>, i)
        /\ IsDollarAmount(SubSeq(s, 1, i - 1))
        /\ IsDollarAmount(SubSeq(s, i + 3, Len(s)))

\* C16: the cost of every quote is a dollar amount with two decimals, a
\* dollar range "$A - $B", or the label "Calculated at checkout".
C16_CostShapes ==
    SyncQuoted =>
        \A k \in 1..Len(ret.value) :
            \/ IsDollarAmount(ret.value[k].cost)
            \/ IsDollarRange(ret.value[k].cost)
            \/ ret.value[k].cost = <<"C","a","l","c","u","l","a","t","e","d"," ","a","t"," ","c","h","e","c","k","o","u","t">>

CostTypeTags == {"fixed", "percentage", "class_based", "bracketed"}
QuoteOps ==
    {"get_shipping_options", "get_shipping_options_for_products",
     "chat_get_shipping_options_for_products", "chat_get_default_shipping_options"}

\* C17: every option record returned by the synchronous quote operations and
\* by the ChatService formatters carries a cost_type that is one of fixed,
\* percentage, class_based or bracketed.
C17_CostTypeTags ==
    (op \in QuoteOps /\ ret.kind = "return") =>
        \A k \in 1..Len(ret.value) : ret.value[k].cost_type \in CostTypeTags

\* the ChatService product formatter has returned a percentage option and a
\* fixed one
C17_Witness ==
    /\ op = "chat_get_shipping_options_for_products"
    /\ ret.kind = "return"
    /\ \E k \in 1..Len(ret.value) : ret.value[k].cost_type = "percentage"
    /\ \E k \in 1..Len(ret.value) : ret.value[k].cost_type = "fixed"

\* the evaluated class rates of method pk for the cart of the request
EvaluatedClassRates(pk) ==
    { c.value : c \in { x \in { CalculateShippingCost(r.cost.v, args.cart_total) :
                                  r \in { y \in Range(ClassRates(db, pk, CartClassIds)) :
                                            Truthy(y.cost) } } :
                          x.kind = "return" } }
\* those among them whose numeric value is the highest
WinningClassRates(pk) ==
    { c \in EvaluatedClassRates(pk) :
        \A e \in EvaluatedClassRates(pk) : ExtractNumericCost(c) >= ExtractNumericCost(e) }
\* a range "$A - $B" or the label for a percentage without a cart total
IsRangeOrSentinel(s) == IsDollarRange(s) \/ s = AtCheckout

\* C18: when the winning class rate of a quoted method evaluates to a range or
\* to "Calculated at checkout", the quote carries that range or label as its
\* cost, not a dollar amount made of its lower bound.
C18_WinningRangeReturned ==
    (op = "get_shipping_options_for_products" /\ ret.kind = "return" /\ SiteFound) =>
        \A k \in 1..Len(ret.value) :
            (/\ WinningClassRates(ret.value[k].origin) # {}
             /\ \A c \in WinningClassRates(ret.value[k].origin) : IsRangeOrSentinel(c)) =>
                ret.value[k].cost \in WinningClassRates(ret.value[k].origin)

\* the zones of the request's site kept by the postcode filter
ZoneMatched(z) ==
    PostcodeMatchesZone(args.customer_postcode.v, z) = Return(TRUE)
RetainedZones ==
    IF Truthy(args.customer_postcode) /\ \E k \in 1..Len(SiteZones) : ZoneMatched(SiteZones[k])
    THEN SelectSeq(SiteZones, ZoneMatched)
    ELSE SiteZones
\* the enabled methods of the retained zones
RetainedMethods ==
    { m \in Range(db.methods) : m.enabled /\ \E z \in Range(RetainedZones) : m.zone_id = z.id }
\* the place of a zone among the site's zones and of a method among the methods
ZonePlace(zone_id) == CHOOSE k \in 1..Len(SiteZones) : SiteZones[k].id = zone_id
MethodPlace(pk) == CHOOSE k \in 1..Len(db.methods) : db.methods[k].id = pk
QuotedMethod(k) == MethodByPk(ret.value[k].origin)

\* C19: the quote list holds one quote per enabled method of every zone kept by
\* the postcode filter and nothing else, in zone order then method order; the
\* methods of two matching zones are all there and free options are kept.
C19_OnePerRetainedMethod ==
    (SyncQuoted /\ SiteFound) =>
        /\ \A k \in 1..Len(ret.value) : QuotedMethod(k) \in RetainedMethods
        /\ \A m \in RetainedMethods :
              Cardinality({ k \in 1..Len(ret.value) : ret.value[k].origin = m.id }) = 1
        /\ \A j, k \in 1..Len(ret.value) :
              j < k =>
                \/ ZonePlace(QuotedMethod(j).zone_id) < ZonePlace(QuotedMethod(k).zone_id)
                \/ /\ QuotedMethod(j).zone_id = QuotedMethod(k).zone_id
                   /\ MethodPlace(ret.value[j].origin) < MethodPlace(ret.value[k].origin)

\* a postcode matching both zones of a site, the first by its location list,
\* has been quoted: two quotes of the same method id and title, one per zone,
\* and a free option among the quotes
C19_Witness ==
    /\ op = "get_shipping_options"
    /\ ret.kind = "return"
    /\ SiteFound
    /\ Truthy(args.customer_postcode)
    /\ Len(SiteZones) = 2
    /\ SiteZones[1].locations.kind \notin {"null", "blank"}
    /\ \A k \in 1..2 : ZoneMatched(SiteZones[k])
    /\ \E j, k \in 1..Len(ret.value) :
          /\ QuotedMethod(j).zone_id = 1
          /\ QuotedMethod(k).zone_id = 2
          /\ ret.value[j].method_id = ret.value[k].method_id
          /\ ret.value[j].title = ret.value[k].title
    /\ \E k \in 1..Len(ret.value) : ret.value[k].cost = <<"$","0",".","0","0">>

\* the quoted cost a settings cost of value val stands for
CostOfAmount(val) ==
    IF val.t = "num" THEN Return(Money(val.n * 1000000))
    ELSE CalculateShippingCost(val.s, args.cart_total)
\* the method's cost comes from its settings: valid JSON with a cost, nested
\* or bare, a string or a number, and no no-class rate row with a cost
CostFromSettings(m) ==
    /\ m.settings.kind = "object"
    /\ m.settings.form \in {"nested", "bare"}
    /\ m.settings.val.t \in {"str", "num"}
    /\ RawCostOfMethod(db, m) = CostValueOfSettings(m.settings)

\* C22: when every enabled method of the site has valid settings, a quote
\* request without a postcode returns, and each method whose cost comes from
\* its settings is quoted at that amount, whether the cost field is a nested
\* {"value": v} or bare, and whether the amount is a string or a number.
C22_CostEncodingsAccepted ==
    (/\ op = "get_shipping_options"
     /\ SiteFound
     /\ ~Truthy(args.customer_postcode)
     /\ \A k \in 1..Len(SiteEnabledMethods) : SiteEnabledMethods[k].settings.kind # "invalid") =>
        /\ ret.kind = "return"
        /\ \A k \in 1..Len(SiteEnabledMethods) :
              CostFromSettings(SiteEnabledMethods[k]) =>
                \E j \in 1..Len(ret.value) :
                    /\ ret.value[j].origin = SiteEnabledMethods[k].id
                    /\ Return(ret.value[j].cost) = CostOfAmount(SiteEnabledMethods[k].settings.val)

\* the quotes of the request before any class-rate override
BaseQuotes ==
    GetShippingOptions(db, args.site_name, args.cart_total, args.customer_postcode).value
\* quote k with the override its own method's class rates give
OwnOverride(k) ==
    IF CartClassIds = {} THEN Return(BaseQuotes[k])
    ELSE OverrideWithRates(BaseQuotes[k],
                           ClassRates(db, BaseQuotes[k].origin, CartClassIds),
                           args.cart_total)

\* C29: each quote of get_shipping_options_for_products carries the override
\* computed from the class rates of the method that produced it, also when
\* another method has the same method_id and title.
C29_OverrideFromOwnMethod ==
    (/\ op = "get_shipping_options_for_products"
     /\ ret.kind = "return"
     /\ SiteFound
     /\ args.products # <<>>) =>
        \A k \in 1..Len(ret.value) : Return(ret.value[k]) = OwnOverride(k)

\* the dollar amounts among the costs of the quotes of the site, free ones
\* included
QuotedAmounts ==
    { ExtractNumericCost(o.cost) :
        o \in { x \in Range(GetShippingOptions(db, args.site_name, args.cart_total, NoneStr).value) :
                  IsDollarAmount(x.cost) } }
SetMinOrZero(S) == IF S = {} THEN 0 ELSE SetMin(S)

\* C25: the total_cost of POST /shipping/calculate is the cart total plus the
\* lowest cost among all quotes, free ones included, when the cart total is
\* positive, and "TBD" when it is not.
C25_TotalIsCartPlusLowest ==
    (op = "calculate_shipping" /\ ret.kind = "return") =>
        ret.value.total_cost =
            IF args.cart_total.v > 0
            THEN Money(args.cart_total.v + SetMinOrZero(QuotedAmounts))
            ELSE <<"T","B","D">>

(***************************************************************************)
(* Claims about the chat requests (checked under SpecChat)                 *)
(***************************************************************************)
\* the committed rows a request wrote
RowsOf(request) ==
    {k \in 1..Len(db.conversations) :
        db.conversations[k].fork = request.fork /\ db.conversations[k].request = request.request}
MessagesBy(fork, request, role) ==
    {k \in 1..Len(db.messages) :
        /\ db.messages[k].fork = fork
        /\ db.messages[k].request = request
        /\ db.messages[k].role = role}
\* a request that has got its answer
Answered(p, fork) == op[p] = "done" /\ args[p].fork = fork

\* C23: two chat requests that run together with the same conversation id,
\* for which no conversation exists yet, both complete without a persistence
\* error and leave exactly one Conversation row for the id.
C23_GetOrCreateSafe ==
    /\ \A p \in Procs : Len(ConversationsWith(db, args[p].conversation_id)) <= 1
    /\ \A p \in Procs :
           (op[p] = "done" /\ args[p].error = "IntegrityError") =>
               (ret[p].kind = "return" /\ ret[p].response = "reply")

\* C24: the history generate_response sends to the LLM is the last 10
\* persisted messages of the conversation, in chronological order, for a
\* conversation of any length.
C24_HistoryIsLatest ==
    \A p \in Procs :
        (args[p].fork = "sync" /\ op[p] = "llm" /\ args[p].found) =>
            args[p].history = Limit_Latest(args[p].seen, HistoryLimit)

\* C26: in generate_response the writes of a request are all-or-nothing: a
\* request that failed left neither a Conversation row nor a message, a
\* request that succeeded left its user message and its assistant reply, and
\* every persisted user message has its assistant reply persisted too.
C26_AllOrNothing ==
    /\ \A p \in Procs :
           Answered(p, "sync") =>
               IF ret[p].kind = "return" /\ ret[p].response = "reply"
               THEN /\ MessagesBy("sync", args[p].request, "user") # {}
                    /\ MessagesBy("sync", args[p].request, "assistant") # {}
               ELSE /\ RowsOf(args[p]) = {}
                    /\ MessagesBy("sync", args[p].request, "user") = {}
                    /\ MessagesBy("sync", args[p].request, "assistant") = {}
    /\ \A k \in 1..Len(db.messages) :
           (db.messages[k].fork = "sync" /\ db.messages[k].role = "user") =>
               MessagesBy("sync", db.messages[k].request, "assistant") # {}
    /\ \A k \in 1..Len(db.conversations) :
           (db.conversations[k].fork = "sync" /\ db.conversations[k].request > 0) =>
               MessagesBy("sync", db.conversations[k].request, "user") # {}

\* a request that inserted the conversation has got the apology for a failed
\* LLM call, next to a request that was answered and left its two messages
C26_Witness ==
    \E p, q \in Procs :
        /\ Answered(p, "sync")
        /\ args[p].created
        /\ args[p].error = "APIError"
        /\ ret[p].response = "apology"
        /\ Answered(q, "sync")
        /\ ret[q].response = "reply"
        /\ MessagesBy("sync", args[q].request, "user") # {}

\* the requests get_response is still working on
InFlight(request) ==
    \E p \in Procs : args[p].request = request /\ op[p] \in {"save_user", "llm", "save_reply"}

\* C27: in get_response a request whose LLM call fails leaves the persisted
\* history unchanged: no user message is persisted without the assistant
\* reply of the same request.
C27_NoUserMessageWithoutReply ==
    \A k \in 1..Len(db.messages) :
        (db.messages[k].fork = "async" /\ db.messages[k].role = "user"
            /\ ~InFlight(db.messages[k].request)) =>
                MessagesBy("async", db.messages[k].request, "assistant") # {}

\* C28: generate_response never raises: for every failure it returns a
\* response whose conversation_id is the id the caller gave, or the generated
\* one when none was given, with no products and at most 3 shipping options.
C28_NeverRaises ==
    \A p \in Procs :
        Answered(p, "sync") =>
            /\ ret[p].kind = "return"
            /\ ret[p].conversation_id =
                   (IF args[p].supplied THEN GivenId ELSE ConvId(TRUE, args[p].request))
            /\ args[p].error # "none" =>
                   (ret[p].products = 0 /\ ret[p].shipping_options <= 3)

\* an unknown site, a database error and a failed LLM call with quotes at hand
\* have each been answered
C28_Witness ==
    \E p, q \in Procs :
        /\ Answered(p, "sync")
        /\ args[p].error \in {"ValueError", "IntegrityError"}
        /\ ~args[p].supplied \/ args[p].error = "IntegrityError"
        /\ ret[p].response = "debug"
        /\ Answered(q, "sync")
        /\ args[q].error = "APIError"
        /\ ret[q].shipping_options = 3

(***************************************************************************)
(* Claims about zone matching (checked under SpecGeo)                      *)
(***************************************************************************)
Matched == op = "_postcode_matches_zone"
\* the zone of the call has exactly one location, of the given type and code
OnlyLocation(type, code) ==
    args.zone.locations = LocationList(<<Location(type, SomeStr(code))>>)

\* C14: a zone whose only location is the state VIC, in any letter case,
\* matches exactly the postcodes whose integer value is in 3000..3999.
C14_VicMatches3000To3999 ==
    Matched =>
        \A c \in VicCodes :
            OnlyLocation("state", c) =>
                ret = Return(/\ args.customer_postcode.n.some
                             /\ args.customer_postcode.n.v >= 3000
                             /\ args.customer_postcode.n.v <= 3999)

\* "3011" has matched a zone whose only location is the state "vic"
C14_Witness ==
    /\ Matched
    /\ OnlyLocation("state", <<"v","i","c">>)
    /\ args.customer_postcode.s = <<"3","0","1","1">>
    /\ ret = Return(TRUE)

MelbourneNames == { <<"M","e","l","b","o","u","r","n","e"," ","M","e","t","r","o">>, <<"M","e","l","b","o","u","r","n","e"," ","5","0","k","m"," ","R","a","d","i","u","s">> }

\* C20: for a zone named after Melbourne with METRO or RADIUS whose only
\* location is a state, city or region with a code found in neither table, a
\* numeric postcode matches exactly when it is in 3000..3199, and the call
\* returns rather than raises.
C20_MissFallsToZoneName ==
    Matched =>
        \A t \in {"state", "city", "region"}, c \in UnknownCodes :
            (/\ OnlyLocation(t, c)
             /\ args.zone.name \in MelbourneNames
             /\ args.customer_postcode.n.some) =>
                ret = Return(/\ args.customer_postcode.n.v >= 3000
                             /\ args.customer_postcode.n.v <= 3199)

\* the zone of the call has a location list whose entries are all of type
\* state, city or region
AreaLocationsOnly ==
    /\ args.zone.locations.kind = "list"
    /\ args.zone.locations.items # <<>>
    /\ \A k \in 1..Len(args.zone.locations.items) :
          args.zone.locations.items[k].type \in {"state", "city", "region"}

\* C21: a postcode that is not an integer never matches a zone whose locations
\* are all states, cities or regions, and the call returns False rather than
\* raising, whatever the location codes and the zone name.
C21_NonNumericNeverMatches ==
    (Matched /\ AreaLocationsOnly /\ ~args.customer_postcode.n.some) =>
        ret = Return(FALSE)

\* "ABCD" has been refused by a zone named "Melbourne Metro" whose only
\* location is a region with a code in neither table
C21_Witness ==
    /\ Matched
    /\ OnlyLocation("region", <<"X","X">>)
    /\ args.zone.name = <<"M","e","l","b","o","u","r","n","e"," ","M","e","t","r","o">>
    /\ args.customer_postcode.s = <<"A","B","C","D">>
    /\ ret = Return(FALSE)

(***************************************************************************)
(* Claims about the cost functions (checked under SpecCost)                *)
(***************************************************************************)
Calculated == op = "_calculate_shipping_cost"
Clamp(x, lo, hi) == IF x < lo THEN lo ELSE IF x > hi THEN hi ELSE x
SpecFee == FeeStr(<<"1","4">>, SomeStr(<<"3","0">>), SomeStr(<<"7","5">>))

\* C7: a bracketed fee [fee percent="P" min_fee="MIN" max_fee="MAX"] with
\* MIN <= MAX costs cart_total * P / 100 clamped into [MIN, MAX], and without a
\* cart total it is the range "$MIN - $MAX" (14/30/75: 100 gives $30.00, 1000
\* gives $75.00, None gives "$30.00 - $75.00").
C7_BracketedFeeClamped ==
    Calculated =>
        /\ \A p \in PercentLits, mn \in MinFeeLits, mx \in MaxFeeLits :
              (mn.v <= mx.v /\ args.cost_str = FeeStr(p.s, SomeStr(mn.s), SomeStr(mx.s))) =>
                  IF args.cart_total.some
                  THEN ret = Return(Money(Clamp(PercentOf(args.cart_total.v, p.v), mn.v, mx.v)))
                  ELSE ret = Return(Money(mn.v) \o <<" ","-"," ">> \o Money(mx.v))
        /\ (args.cost_str = SpecFee /\ args.cart_total = SomeNum(100000000))
              => ret = Return(<<"$","3","0",".","0","0">>)
        /\ (args.cost_str = SpecFee /\ args.cart_total = SomeNum(1000000000))
              => ret = Return(<<"$","7","5",".","0","0">>)
        /\ (args.cost_str = SpecFee /\ args.cart_total = SomeNum(300000000))
              => ret = Return(<<"$","4","2",".","0","0">>)
        /\ (args.cost_str = SpecFee /\ args.cart_total = NoneNum)
              => ret = Return(<<"$","3","0",".","0","0"," ","-"," ","$","7","5",".","0","0">>)

\* the 14/30/75 fee of a cart of 1000 has been capped at max_fee
C7_Witness ==
    /\ Calculated
    /\ args.cost_str = SpecFee
    /\ args.cart_total = SomeNum(1000000000)
    /\ ret = Return(<<"$","7","5",".","0","0">>)

\* C8: a percentage "P%" costs cart_total * P / 100 as a two-decimal dollar
\* amount, and "Calculated at checkout" when there is no cart total.
C8_PercentageOfCart ==
    Calculated =>
        /\ \A p \in PercentLits :
              args.cost_str = p.s \o <<"%">> =>
                  IF args.cart_total.some
                  THEN ret = Return(Money(PercentOf(args.cart_total.v, p.v)))
                  ELSE ret = Return(<<"C","a","l","c","u","l","a","t","e","d"," ","a","t"," ","c","h","e","c","k","o","u","t">>)
        /\ (args.cost_str = <<"1","4","%">> /\ args.cart_total = SomeNum(100000000))
              => ret = Return(<<"$","1","4",".","0","0">>)
        /\ (args.cost_str = <<"2",".","5","%">> /\ args.cart_total = SomeNum(33330000))
              => ret = Return(<<"$","0",".","8","3">>)

\* 2.5% of 33.33 has been quoted, rounded to cents
C8_Witness ==
    /\ Calculated
    /\ args.cost_str = <<"2",".","5","%">>
    /\ args.cart_total = SomeNum(33330000)
    /\ ret = Return(<<"$","0",".","8","3">>)

\* C9: a fixed cost "$X.XX" or "X.XX" is quoted as "$X.XX" whatever the cart
\* total is, None included.
C9_FixedCostIgnoresCart ==
    Calculated =>
        \A d \in Dec2Lits :
            args.cost_str \in {d.s, <<"$">> \o d.s} => ret = Return(<<"$">> \o d.s)

\* "10.50" has been quoted as "$10.50" for a cart of 1000
C9_Witness ==
    /\ Calculated
    /\ args.cost_str = <<"1","0",".","5","0">>
    /\ args.cart_total = SomeNum(1000000000)
    /\ ret = Return(<<"$","1","0",".","5","0">>)

\* C10: _calculate_shipping_cost returns a value for every raw cost string; it
\* never raises.
C10_NeverRaises == Calculated => ret.kind = "return"

\* the cost strings of the recognized forms: fixed amounts, percentages and
\* bracketed fees with or without min_fee and max_fee
RecognizedCosts ==
    {d.s : d \in Dec2Lits} \cup {<<"$">> \o d.s : d \in Dec2Lits}
        \cup {p.s \o <<"%">> : p \in PercentLits} \cup FeeStrings

\* C30: for every cost string of a recognized form the asynchronous
\* _parse_cost gives the number the synchronous _extract_numeric_cost gives
\* for _calculate_shipping_cost of the string with no cart total.
C30_ParsersAgree ==
    (op = "_parse_cost" /\ args.cost_str \in RecognizedCosts) =>
        ret = Return(ExtractNumericCost(CalculateShippingCost(args.cost_str, NoneNum).value))

====
